---- MODULE Spec2Model ----
(***************************************************************************)
(* State-machine model of the ESI documents backend: the documents app     *)
(* (employees, work certificates, mission orders and their legs), the      *)
(* reference allocator of the two perform_create hooks, the nested         *)
(* serializer of mission orders, and of the accounts and dashboard apps:    *)
(* user creation, password reset and change, notifications, the activity   *)
(* log and its middleware.                                                 *)
(*                                                                         *)
(* The specifications share the variables:                                 *)
(*   Spec          one request at a time, each handler one atomic step:    *)
(*                 certificates, mission orders, employees                 *)
(*   SpecMission   one request at a time: mission orders and their legs    *)
(*   SpecConc      several request handlers interleaving at their          *)
(*                 database calls, each of which may raise                 *)
(*   SpecUsers     the user-creation requests                              *)
(*   SpecAccounts  user creation and password reset as days pass           *)
(*   SpecPasswords SpecAccounts with the change of a password              *)
(*   SpecNotif     notifications of the users                              *)
(*   SpecNotifConc mark_all_as_read interleaving with other notification   *)
(*                 requests at its two database calls                      *)
(*   SpecManage    creation, update and deletion of users, authentication  *)
(*   SpecLog       requests passing through the activity-log middleware    *)
(*                 and the activity-log API                                *)
(*   SpecGate      the role gates of the employee, activity-log and        *)
(*                 statistics views                                        *)
(*   SpecRecent    the recent-activities listing as days pass              *)
(***************************************************************************)
EXTENDS Integers, Sequences, FiniteSets, TLC

VARIABLES
    year,          \* calendar year of datetime.today() / auto_now_add
    users,         \* accounts_customuser rows
    employees,     \* documents_employee primary keys
    attestations,  \* documents_attestationtravail rows
    missions,      \* documents_ordremission rows
    etapes,        \* documents_etapemission rows
    nextId,        \* auto-increment primary-key counters, one per table
    created,       \* history: successful creations per kind and year
    req,           \* the request handled last (sequential specifications)
    resp,          \* the HTTP status of its response
    proc,          \* SpecConc: the handler of each concurrent request
    now,           \* timezone.now(), in days
    tokens,        \* password-reset tokens mailed so far
    notifications, \* accounts_notification rows
    log,           \* dashboard_activitylog rows
    detail,        \* the message of the last response body
    mailed         \* what send_mail did during the last request

\* the state of the accounts and dashboard apps beyond the user table
sideVars == <<now, tokens, notifications, log, detail, mailed>>

vars == <<year, users, employees, attestations, missions, etapes, nextId,
          created, req, resp, proc, sideVars>>

-----------------------------------------------------------------------------
(* Bounds *)

FirstYear == 2024
MaxTicks == 1
MaxDocuments == 3
MaxAttestations == 3
MaxMissions == 2
MaxEtapes == 2
MaxLegs == 1
MaxUsers == 4
NumRequests == 2

Years == FirstYear..(FirstYear + MaxTicks)

Workers == 1..NumRequests

Absent == "absent"      \* a text field the request body does not carry
NoId == 0               \* a key the request does not carry

-----------------------------------------------------------------------------
(* accounts: CustomUser *)

Roles == {"ADMIN", "RH", "SG"}

Emails == {"admin@esi.dz", "rh@esi.dz", "sg@esi.dz", "new@esi.dz"}

TempPasswords == {"tmpA", "tmpB"}

InitUsers ==
    { [id |-> 1, email |-> "admin@esi.dz", first_name |-> "Karima",
       last_name |-> "Bentaleb", role |-> "ADMIN",
       password |-> "pwAdmin", temp_password |-> Absent],
      [id |-> 2, email |-> "rh@esi.dz", first_name |-> "Ali",
       last_name |-> "Mansouri", role |-> "RH",
       password |-> "pwRh", temp_password |-> Absent] }

UserIds == {u.id : u \in users}

User(uid) == CHOOSE u \in users : u.id = uid

\* CustomUser.__str__ and the f-string of OrdreMissionViewSet.perform_create
FullName(u) == u.first_name \o " " \o u.last_name

-----------------------------------------------------------------------------
(* documents: rows and request bodies *)

EmployeeIds == {1, 2}

ClientRefs == {"REF-X"}

ClientNames == {"Mallory Client"}

EtapeData ==
    { [lieu_depart |-> "Alger", lieu_arrivee |-> "Paris",
       date_depart |-> 1, date_arrivee |-> 2, moyen_transport |-> "AVION"],
      [lieu_depart |-> "Paris", lieu_arrivee |-> "Alger",
       date_depart |-> 3, date_arrivee |-> 4, moyen_transport |-> "AVION"] }

LegLists == UNION {[1..n -> EtapeData] : n \in 0..MaxLegs}

\* Python's f"{n:04d}": zero-padded to a minimum width of four
Pad4(n) ==
    IF n < 10 THEN "000" \o ToString(n)
    ELSE IF n < 100 THEN "00" \o ToString(n)
    ELSE IF n < 1000 THEN "0" \o ToString(n)
    ELSE ToString(n)

FormatReference(prefix, yr, seq) ==
    prefix \o "-" \o ToString(yr) \o "-" \o Pad4(seq)

\* AttestationTravail.objects.filter(date_emission__year=today.year).count()
CountAttestations(rows, yr) ==
    Cardinality({a \in rows : a.date_emission = yr})

\* OrdreMission.objects.filter(date_creation__year=today.year).count()
CountMissions(rows, yr) ==
    Cardinality({m \in rows : m.date_creation = yr})

AttestationReference(rows, yr) ==
    FormatReference("AT", yr, CountAttestations(rows, yr) + 1)

MissionReference(rows, yr) ==
    FormatReference("OM", yr, CountMissions(rows, yr) + 1)

AttestationIds == {a.id : a \in attestations}
MissionIds == {m.id : m \in missions}
EtapeIds == {e.id : e \in etapes}

Attestation(i) == CHOOSE a \in attestations : a.id = i
Mission(i) == CHOOSE m \in missions : m.id = i

EtapesOf(rows, m) == {e \in rows : e.ordre_mission = m}

\* the leg contents of an order, as a bag (primary keys left out)
LegBag(rows, m) ==
    [d \in EtapeData |-> Cardinality({e \in EtapesOf(rows, m) : e.data = d})]

SeqBag(legs) ==
    [d \in EtapeData |-> Cardinality({i \in DOMAIN legs : legs[i] = d})]

\* rows inserted for a list of legs, primary keys from first on
NewEtapes(m, legs, first) ==
    { [id |-> first + i - 1, ordre_mission |-> m, data |-> legs[i]] :
        i \in DOMAIN legs }

\* what the last request asked for: the endpoint, the mission order it
\* addressed, whether the body carried a list of legs, and that list
Request(op, id, given, legs) ==
    [op |-> op, id |-> id, given |-> given, legs |-> legs]

NoRequest == Request("none", NoId, FALSE, <<>>)

\* a request not yet received. The fields of a request being handled are the
\* local variables of its handler: the validated body, today.year, the
\* reference computed from the count, the user's name, the instance read by
\* get_object, the number k of legs inserted so far, and the response status
\* once done; seen (the primary keys the count query counted) and old (the leg
\* rows the order had when the update began) are history.
Idle ==
    [pc |-> "idle", op |-> "none", body |-> Absent, id |-> NoId,
     today |-> NoId, reference |-> Absent, name |-> Absent, seen |-> {},
     instance |-> Absent, old |-> {}, k |-> 0, status |-> 0]

-----------------------------------------------------------------------------
Init ==
    /\ year = FirstYear
    /\ users = InitUsers
    /\ employees = EmployeeIds
    /\ attestations = {}
    /\ missions = {}
    /\ etapes = {}
    /\ nextId = [att |-> 1, mis |-> 1, eta |-> 1, usr |-> 3, ntf |-> 1, act |-> 1,
                 emp |-> 3]
    /\ created = [k \in {"AT", "OM"} |-> [y \in Years |-> 0]]
    /\ req = NoRequest
    /\ resp = 0
    /\ proc = [w \in Workers |-> Idle]
    /\ now = 0
    /\ tokens = {}
    /\ notifications = {}
    /\ log = {}
    /\ detail = Absent
    /\ mailed = "none"

\* the calendar moves into the next year
Tick ==
    /\ year < FirstYear + MaxTicks
    /\ year' = year + 1
    /\ UNCHANGED <<users, employees, attestations, missions, etapes, nextId,
                   created, req, resp, proc, sideVars>>

\* certificates and mission orders created so far
DocumentsCreated == (nextId.att - 1) + (nextId.mis - 1)

-----------------------------------------------------------------------------
(* Permissions *)

\* rest_framework.permissions.IsAuthenticated
IsAuthenticated(u) == u \in UserIds

\* faulty variant: any authenticated user passes
IsAdminUserAnyRole(u) == u \in UserIds

\* documents.views.IsAdminUser
IsAdminUser(u) == u \in UserIds /\ User(u).role = "ADMIN"

\* the users who are not administrators; requests whose handler asks only for
\* an authenticated user are drawn from them
Clerks == {u \in UserIds : User(u).role # "ADMIN"}

-----------------------------------------------------------------------------
(* Work certificates: AttestationTravailViewSet *)

AttestationBodies ==
    [reference : ClientRefs \cup {Absent}, employee : EmployeeIds \cup {NoId}]

\* AttestationTravailSerializer.is_valid: reference and employee are required
\* unless the update is partial; employee must be an existing primary key
AttestationValid(body, partial) ==
    /\ partial \/ (body.reference # Absent /\ body.employee # NoId)
    /\ body.employee # NoId => body.employee \in employees

\* POST /api/documents/attestations/
AttestationCreate(u, body) ==
    /\ IsAuthenticated(u)
    /\ nextId.att <= MaxAttestations
    /\ DocumentsCreated < MaxDocuments
    /\ req' = Request("attestation_create", NoId, FALSE, <<>>)
    /\ IF AttestationValid(body, FALSE)
       THEN /\ attestations' = attestations \cup
                  { [id |-> nextId.att,
                     reference |-> AttestationReference(attestations, year),
                     employee |-> body.employee,
                     date_emission |-> year] }
            /\ nextId' = [nextId EXCEPT !.att = @ + 1]
            /\ created' = [created EXCEPT !["AT"][year] = @ + 1]
            /\ resp' = 201
       ELSE /\ resp' = 400
            /\ UNCHANGED <<attestations, nextId, created>>
    /\ UNCHANGED <<year, users, employees, missions, etapes, proc, sideVars>>

\* ModelSerializer.update: every field of validated_data is set on the row
AttestationUpdated(a, body) ==
    [a EXCEPT
       !.reference = IF body.reference = Absent THEN @ ELSE body.reference,
       !.employee = IF body.employee = NoId THEN @ ELSE body.employee]

\* PUT (partial = FALSE) or PATCH (partial = TRUE) /attestations/<id>/
AttestationUpdate(u, i, body, partial) ==
    /\ IsAuthenticated(u)
    /\ req' = Request("attestation_update", NoId, FALSE, <<>>)
    /\ IF i \notin AttestationIds
       THEN /\ resp' = 404
            /\ UNCHANGED attestations
       ELSE IF ~AttestationValid(body, partial)
       THEN /\ resp' = 400
            /\ UNCHANGED attestations
       ELSE /\ attestations' = (attestations \ {Attestation(i)}) \cup
                                 {AttestationUpdated(Attestation(i), body)}
            /\ resp' = 200
    /\ UNCHANGED <<year, users, employees, missions, etapes, nextId, created,
                   proc, sideVars>>

\* DELETE /attestations/<id>/
AttestationDelete(u, i) ==
    /\ IsAuthenticated(u)
    /\ req' = Request("attestation_delete", NoId, FALSE, <<>>)
    /\ IF i \notin AttestationIds
       THEN /\ resp' = 404
            /\ UNCHANGED attestations
       ELSE /\ attestations' = attestations \ {Attestation(i)}
            /\ resp' = 204
    /\ UNCHANGED <<year, users, employees, missions, etapes, nextId, created,
                   proc, sideVars>>

-----------------------------------------------------------------------------
(* Mission orders: OrdreMissionViewSet and OrdreMissionSerializer *)

\* the "etapes" key of a request body: not given, or a list of legs
NoEtapes == [given |-> FALSE, list |-> <<>>]

EtapesGiven(legs) == [given |-> TRUE, list |-> legs]

EtapesFields == {NoEtapes} \cup {EtapesGiven(legs) : legs \in LegLists}

MissionBodies ==
    [reference : ClientRefs \cup {Absent},
     missionnaire : EmployeeIds \cup {NoId},
     responsable_emission : ClientNames \cup {Absent},
     etapes : EtapesFields]

\* bodies of requests that create an order with its legs, and of PATCHes that
\* leave reference and responsable_emission alone
LegCreateBodies ==
    {b \in MissionBodies :
        b.reference # Absent /\ b.responsable_emission # Absent}

LegPatchBodies ==
    {b \in MissionBodies :
        b.reference = Absent /\ b.responsable_emission = Absent}

\* EtapeMissionSerializer.is_valid: the CharFields may not be blank
EtapeValid(d) == d.lieu_depart # "" /\ d.lieu_arrivee # "" /\ d.moyen_transport # ""

InvalidEtape ==
    [lieu_depart |-> "", lieu_arrivee |-> "Oran",
     date_depart |-> 1, date_arrivee |-> 2, moyen_transport |-> "TRAIN"]

\* OrdreMissionSerializer.is_valid: fields = '__all__' with only
\* date_creation read-only, so reference, missionnaire and
\* responsable_emission are required unless the update is partial;
\* etapes has required=False
MissionValid(body, partial) ==
    /\ partial \/ /\ body.reference # Absent
                  /\ body.missionnaire # NoId
                  /\ body.responsable_emission # Absent
    /\ body.missionnaire # NoId => body.missionnaire \in employees
    /\ \A i \in DOMAIN body.etapes.list : EtapeValid(body.etapes.list[i])

\* OrdreMissionSerializer.create: etapes_data = validated_data.pop('etapes', [])
\* then one EtapeMission row per element
SerializerCreateEtapes(rows, m, field, first) ==
    rows \cup NewEtapes(m, field.list, first)

\* faulty variant: etapes popped with a default of [] as in create, so an update
\* without the key clears the legs
SerializerUpdateEtapesDefaultEmpty(rows, m, field, first) ==
    (rows \ EtapesOf(rows, m)) \cup NewEtapes(m, field.list, first)

\* faulty variant: the given legs are added without deleting the existing ones
SerializerUpdateEtapesAppend(rows, m, field, first) ==
    rows \cup NewEtapes(m, field.list, first)

\* OrdreMissionSerializer.update, the legs: untouched when etapes is not
\* given, otherwise all deleted and the given ones inserted
SerializerUpdateEtapes(rows, m, field, first) ==
    IF field.given
    THEN (rows \ EtapesOf(rows, m)) \cup NewEtapes(m, field.list, first)
    ELSE rows

\* OrdreMissionSerializer.update, the scalar fields: setattr for every key of
\* validated_data
MissionUpdated(m, body) ==
    [m EXCEPT
       !.reference = IF body.reference = Absent THEN @ ELSE body.reference,
       !.missionnaire = IF body.missionnaire = NoId THEN @ ELSE body.missionnaire,
       !.responsable_emission =
           IF body.responsable_emission = Absent THEN @
           ELSE body.responsable_emission]

\* serializer.save(reference=..., responsable_emission=...) of perform_create:
\* the keyword arguments override the validated request data
MissionCreated(i, u, body) ==
    [id |-> i,
     reference |-> MissionReference(missions, year),
     missionnaire |-> body.missionnaire,
     date_creation |-> year,
     responsable_emission |-> FullName(User(u))]

\* POST /api/documents/missions/
MissionCreate(u, body) ==
    /\ IsAuthenticated(u)
    /\ nextId.mis <= MaxMissions
    /\ DocumentsCreated < MaxDocuments
    /\ nextId.eta + Len(body.etapes.list) - 1 <= MaxEtapes
    /\ req' = Request("mission_create", NoId, body.etapes.given, body.etapes.list)
    /\ IF MissionValid(body, FALSE)
       THEN /\ missions' = missions \cup {MissionCreated(nextId.mis, u, body)}
            /\ etapes' = SerializerCreateEtapes(etapes, nextId.mis, body.etapes,
                                                nextId.eta)
            /\ nextId' = [nextId EXCEPT !.mis = @ + 1,
                                        !.eta = @ + Len(body.etapes.list)]
            /\ created' = [created EXCEPT !["OM"][year] = @ + 1]
            /\ resp' = 201
       ELSE /\ resp' = 400
            /\ UNCHANGED <<missions, etapes, nextId, created>>
    /\ UNCHANGED <<year, users, employees, attestations, proc, sideVars>>

\* PUT (partial = FALSE) or PATCH (partial = TRUE) /missions/<id>/
MissionUpdate(u, i, body, partial) ==
    /\ IsAuthenticated(u)
    /\ nextId.eta + Len(body.etapes.list) - 1 <= MaxEtapes
    /\ req' = Request("mission_update", i, body.etapes.given, body.etapes.list)
    /\ IF i \notin MissionIds
       THEN /\ resp' = 404
            /\ UNCHANGED <<missions, etapes, nextId>>
       ELSE IF ~MissionValid(body, partial)
       THEN /\ resp' = 400
            /\ UNCHANGED <<missions, etapes, nextId>>
       ELSE /\ missions' = (missions \ {Mission(i)}) \cup
                             {MissionUpdated(Mission(i), body)}
            /\ etapes' = SerializerUpdateEtapes(etapes, i, body.etapes,
                                                nextId.eta)
            /\ nextId' = [nextId EXCEPT !.eta = @ + Len(body.etapes.list)]
            /\ resp' = 200
    /\ UNCHANGED <<year, users, employees, attestations, created, proc, sideVars>>

\* faulty variant: on_delete=SET_NULL/DO_NOTHING, the legs stay
CascadeEtapesNone(rows, gone) == rows

\* on_delete=CASCADE of EtapeMission.ordre_mission: the legs that survive
\* the deletion of the orders gone
CascadeEtapes(rows, gone) == {e \in rows : e.ordre_mission \notin gone}

\* DELETE /missions/<id>/
MissionDelete(u, i) ==
    /\ IsAuthenticated(u)
    /\ req' = Request("mission_delete", i, FALSE, <<>>)
    /\ IF i \notin MissionIds
       THEN /\ resp' = 404
            /\ UNCHANGED <<missions, etapes>>
       ELSE /\ missions' = missions \ {Mission(i)}
            /\ etapes' = CascadeEtapes(etapes, {i})
            /\ resp' = 204
    /\ UNCHANGED <<year, users, employees, attestations, nextId, created,
                   proc, sideVars>>

\* POST /missions/<id>/etapes/ : OrdreMissionViewSet.add_etape
AddEtape(u, i, data) ==
    /\ IsAuthenticated(u)
    /\ nextId.eta <= MaxEtapes
    /\ req' = Request("add_etape", i, FALSE, <<>>)
    /\ IF i \notin MissionIds
       THEN /\ resp' = 404
            /\ UNCHANGED <<etapes, nextId>>
       ELSE IF ~EtapeValid(data)
       THEN /\ resp' = 400
            /\ UNCHANGED <<etapes, nextId>>
       ELSE /\ etapes' = etapes \cup
                  {[id |-> nextId.eta, ordre_mission |-> i, data |-> data]}
            /\ nextId' = [nextId EXCEPT !.eta = @ + 1]
            /\ resp' = 201
    /\ UNCHANGED <<year, users, employees, attestations, missions, created,
                   proc, sideVars>>

-----------------------------------------------------------------------------
(* Legs as a nested resource: EtapeMissionViewSet *)

\* EtapeMissionViewSet.get_queryset, then get_object by primary key
EtapeQueryset(mission_pk) == EtapesOf(etapes, mission_pk)

\* PUT or PATCH /missions/<mission_pk>/etapes/<pk>/ ; the serializer has no
\* ordre_mission field, so the parent stays what it is
EtapeUpdate(u, mission_pk, pk, data) ==
    /\ IsAuthenticated(u)
    /\ req' = Request("etape_update", mission_pk, FALSE, <<>>)
    /\ IF pk \notin {e.id : e \in EtapeQueryset(mission_pk)}
       THEN /\ resp' = 404
            /\ UNCHANGED etapes
       ELSE IF ~EtapeValid(data)
       THEN /\ resp' = 400
            /\ UNCHANGED etapes
       ELSE /\ etapes' = {IF e.id = pk THEN [e EXCEPT !.data = data] ELSE e :
                            e \in etapes}
            /\ resp' = 200
    /\ UNCHANGED <<year, users, employees, attestations, missions, nextId,
                   created, proc, sideVars>>

\* DELETE /missions/<mission_pk>/etapes/<pk>/
EtapeDelete(u, mission_pk, pk) ==
    /\ IsAuthenticated(u)
    /\ req' = Request("etape_delete", mission_pk, FALSE, <<>>)
    /\ IF pk \notin {e.id : e \in EtapeQueryset(mission_pk)}
       THEN /\ resp' = 404
            /\ UNCHANGED etapes
       ELSE /\ etapes' = {e \in etapes : e.id # pk}
            /\ resp' = 204
    /\ UNCHANGED <<year, users, employees, attestations, missions, nextId,
                   created, proc, sideVars>>

-----------------------------------------------------------------------------
(* Employees: EmployeeViewSet *)

\* on_delete=CASCADE of OrdreMission.missionnaire: the orders deleted with
\* an employee
MissionsOfEmployee(e) == {m.id : m \in {x \in missions : x.missionnaire = e}}

\* DELETE /api/documents/employees/<id>/
EmployeeDelete(u, e) ==
    /\ IsAuthenticated(u)
    /\ req' = Request("employee_delete", NoId, FALSE, <<>>)
    /\ IF ~IsAdminUser(u)
       THEN /\ resp' = 403
            /\ UNCHANGED <<employees, attestations, missions, etapes>>
       ELSE IF e \notin employees
       THEN /\ resp' = 404
            /\ UNCHANGED <<employees, attestations, missions, etapes>>
       ELSE /\ employees' = employees \ {e}
            /\ attestations' = {a \in attestations : a.employee # e}
            /\ missions' = {m \in missions : m.missionnaire # e}
            /\ etapes' = CascadeEtapes(etapes, MissionsOfEmployee(e))
            /\ resp' = 204
    /\ UNCHANGED <<year, users, nextId, created, proc, sideVars>>

-----------------------------------------------------------------------------
(* Spec: the reference allocator. One request at a time; certificates and
   mission orders are created, updated and deleted while the year advances.
   Mission requests carry no legs here. *)

RefMissionBodies == {b \in MissionBodies : b.etapes = NoEtapes}

Next ==
    \/ Tick
    \/ \E u \in Clerks, b \in AttestationBodies : AttestationCreate(u, b)
    \/ \E u \in Clerks, i \in 1..MaxAttestations, b \in AttestationBodies,
          partial \in BOOLEAN : AttestationUpdate(u, i, b, partial)
    \/ \E u \in Clerks, i \in 1..MaxAttestations : AttestationDelete(u, i)
    \/ \E u \in UserIds, b \in RefMissionBodies : MissionCreate(u, b)
    \/ \E u \in Clerks, i \in 1..MaxMissions, b \in RefMissionBodies,
          partial \in BOOLEAN : MissionUpdate(u, i, b, partial)
    \/ \E u \in Clerks, i \in 1..MaxMissions : MissionDelete(u, i)
    \/ \E u \in UserIds, e \in EmployeeIds : EmployeeDelete(u, e)

Spec == Init /\ [][Next]_vars

-----------------------------------------------------------------------------
(* SpecMission: the order-and-legs aggregate. One request at a time. *)

NextMission ==
    \/ \E u \in Clerks, b \in LegCreateBodies : MissionCreate(u, b)
    \/ \E u \in Clerks, i \in 1..MaxMissions, b \in LegPatchBodies :
          MissionUpdate(u, i, b, TRUE)
    \/ \E u \in Clerks, i \in 1..MaxMissions : MissionDelete(u, i)
    \/ \E u \in Clerks, i \in 1..MaxMissions,
          d \in EtapeData \cup {InvalidEtape} : AddEtape(u, i, d)
    \/ \E u \in Clerks, m \in 1..MaxMissions, pk \in 1..MaxEtapes,
          d \in EtapeData \cup {InvalidEtape} : EtapeUpdate(u, m, pk, d)
    \/ \E u \in Clerks, m \in 1..MaxMissions, pk \in 1..MaxEtapes :
          EtapeDelete(u, m, pk)
    \/ \E u \in UserIds, e \in EmployeeIds : EmployeeDelete(u, e)

SpecMission == Init /\ [][NextMission]_vars

-----------------------------------------------------------------------------
(* SpecConc: request handlers interleaving at their database calls.

   Each worker handles one request; every database call of its handler is one
   step, committed when it returns, and any of them may raise, which ends the
   request with a server error. *)

\* the database commits every statement on its own (Django's autocommit; no
\* handler opens transaction.atomic, and the settings are taken not to set
\* ATOMIC_REQUESTS). When FALSE a failed request undoes its own writes.
AutoCommit == TRUE

\* a request not yet received
Free(w) == proc[w].pc = "idle"

Running(w) == proc[w].pc \notin {"idle", "done"}

InFlight(op) == {w \in Workers : Running(w) /\ proc[w].op = op}

\* legs that the requests in flight have still to insert
PendingLegs(w) ==
    IF Running(w) /\ proc[w].op \in {"mission_create", "mission_update"}
    THEN Len(proc[w].body.etapes.list) - proc[w].k
    ELSE 0

RECURSIVE SumPending(_)
SumPending(ws) ==
    IF ws = {} THEN 0
    ELSE LET w == CHOOSE x \in ws : TRUE
         IN  PendingLegs(w) + SumPending(ws \ {w})

RoomForDocument ==
    DocumentsCreated + Cardinality(InFlight("attestation_create"))
       + Cardinality(InFlight("mission_create")) < MaxDocuments

RoomForLegs(legs) ==
    nextId.eta + SumPending(Workers) + Len(legs) - 1 <= MaxEtapes

Done(p, status) == [p EXCEPT !.pc = "done", !.status = status]

\* AttestationTravailViewSet.perform_create up to the count query:
\* today = datetime.today(); existing_count = ...count(); reference = f"..."
CountAttestation(w, u, body) ==
    /\ Free(w)
    /\ IsAuthenticated(u)
    /\ AttestationValid(body, FALSE)
    /\ RoomForDocument
    /\ nextId.att + Cardinality(InFlight("attestation_create"))
          <= MaxAttestations
    /\ proc' = [proc EXCEPT ![w] =
          [Idle EXCEPT !.pc = "counted", !.op = "attestation_create",
                       !.body = body, !.today = year,
                       !.reference = AttestationReference(attestations, year),
                       !.seen = {a.id : a \in {x \in attestations :
                                                 x.date_emission = year}}]]
    /\ UNCHANGED <<year, users, employees, attestations, missions, etapes,
                   nextId, created, req, resp, sideVars>>

\* faulty variant: the sequence number is taken again from the table at the moment of
\* the insert, in one step with it
SavedAttestationReferenceAtInsert(p) == AttestationReference(attestations, year)

\* serializer.save(reference=reference): the reference computed before
SavedAttestationReference(p) == p.reference

\* serializer.save(reference=reference): the INSERT; auto_now_add dates the row
InsertAttestation(w) ==
    /\ proc[w].pc = "counted" /\ proc[w].op = "attestation_create"
    /\ proc[w].body.employee \in employees
    /\ attestations' = attestations \cup
          { [id |-> nextId.att,
             reference |-> SavedAttestationReference(proc[w]),
             employee |-> proc[w].body.employee,
             date_emission |-> year] }
    /\ nextId' = [nextId EXCEPT !.att = @ + 1]
    /\ created' = [created EXCEPT !["AT"][year] = @ + 1]
    /\ proc' = [proc EXCEPT ![w] = Done([@ EXCEPT !.id = nextId.att], 201)]
    /\ UNCHANGED <<year, users, employees, missions, etapes, req, resp, sideVars>>

\* OrdreMissionViewSet.perform_create up to the count query
CountMission(w, u, body) ==
    /\ Free(w)
    /\ IsAuthenticated(u)
    /\ MissionValid(body, FALSE)
    /\ RoomForDocument
    /\ nextId.mis + Cardinality(InFlight("mission_create")) <= MaxMissions
    /\ RoomForLegs(body.etapes.list)
    /\ proc' = [proc EXCEPT ![w] =
          [Idle EXCEPT !.pc = "counted", !.op = "mission_create",
                       !.body = body, !.today = year,
                       !.reference = MissionReference(missions, year),
                       !.name = FullName(User(u)),
                       !.seen = {m.id : m \in {x \in missions :
                                                 x.date_creation = year}}]]
    /\ UNCHANGED <<year, users, employees, attestations, missions, etapes,
                   nextId, created, req, resp, sideVars>>

\* OrdreMissionSerializer.create: OrdreMission.objects.create(**validated_data)
InsertMission(w) ==
    /\ proc[w].pc = "counted" /\ proc[w].op = "mission_create"
    /\ proc[w].body.missionnaire \in employees
    /\ missions' = missions \cup
          { [id |-> nextId.mis,
             reference |-> proc[w].reference,
             missionnaire |-> proc[w].body.missionnaire,
             date_creation |-> year,
             responsable_emission |-> proc[w].name] }
    /\ nextId' = [nextId EXCEPT !.mis = @ + 1]
    /\ created' = [created EXCEPT !["OM"][year] = @ + 1]
    /\ proc' = [proc EXCEPT ![w] =
          IF proc[w].body.etapes.list = <<>>
          THEN Done([@ EXCEPT !.id = nextId.mis], 201)
          ELSE [@ EXCEPT !.pc = "inserting", !.id = nextId.mis]]
    /\ UNCHANGED <<year, users, employees, attestations, etapes, req, resp, sideVars>>

\* self.get_object() of UpdateModelMixin.update, then is_valid
LoadMission(w, u, i, body) ==
    /\ Free(w)
    /\ IsAuthenticated(u)
    /\ i \in MissionIds
    /\ MissionValid(body, TRUE)
    /\ RoomForLegs(body.etapes.list)
    /\ proc' = [proc EXCEPT ![w] =
          [Idle EXCEPT !.pc = "loaded", !.op = "mission_update",
                       !.body = body, !.id = i, !.instance = Mission(i),
                       !.old = EtapesOf(etapes, i)]]
    /\ UNCHANGED <<year, users, employees, attestations, missions, etapes,
                   nextId, created, req, resp, sideVars>>

\* OrdreMissionSerializer.update: setattr on the instance, instance.save()
SaveMission(w) ==
    /\ proc[w].pc = "loaded"
    /\ missions' = {m \in missions : m.id # proc[w].id} \cup
                      {MissionUpdated(proc[w].instance, proc[w].body)}
    /\ proc' = [proc EXCEPT ![w] =
          IF proc[w].body.etapes.given
          THEN [@ EXCEPT !.pc = "saved"]
          ELSE Done(@, 200)]
    /\ UNCHANGED <<year, users, employees, attestations, etapes, nextId,
                   created, req, resp, sideVars>>

\* OrdreMissionSerializer.update: instance.etapes.all().delete()
DeleteEtapes(w) ==
    /\ proc[w].pc = "saved"
    /\ etapes' = etapes \ EtapesOf(etapes, proc[w].id)
    /\ proc' = [proc EXCEPT ![w] =
          IF proc[w].body.etapes.list = <<>>
          THEN Done(@, 200)
          ELSE [@ EXCEPT !.pc = "inserting"]]
    /\ UNCHANGED <<year, users, employees, attestations, missions, nextId,
                   created, req, resp, sideVars>>

\* one EtapeMission.objects.create(...) of the loop of create or of update
InsertEtape(w) ==
    /\ proc[w].pc = "inserting"
    /\ proc[w].id \in MissionIds
    /\ etapes' = etapes \cup
          { [id |-> nextId.eta, ordre_mission |-> proc[w].id,
             data |-> proc[w].body.etapes.list[proc[w].k + 1]] }
    /\ nextId' = [nextId EXCEPT !.eta = @ + 1]
    /\ proc' = [proc EXCEPT ![w] =
          IF proc[w].k + 1 = Len(proc[w].body.etapes.list)
          THEN Done([@ EXCEPT !.k = @ + 1],
                    IF proc[w].op = "mission_create" THEN 201 ELSE 200)
          ELSE [@ EXCEPT !.k = @ + 1]]
    /\ UNCHANGED <<year, users, employees, attestations, missions, created,
                   req, resp, sideVars>>

\* what a failed request leaves of the rows it wrote when the database rolls
\* the request back
RolledBackMissions(p) ==
    IF p.op = "mission_create" THEN {m \in missions : m.id # p.id}
    ELSE IF p.op = "mission_update" /\ p.pc # "loaded"
    THEN {m \in missions : m.id # p.id} \cup {p.instance}
    ELSE missions

RolledBackEtapes(p) ==
    IF p.op = "mission_create" THEN {e \in etapes : e.ordre_mission # p.id}
    ELSE IF p.op = "mission_update" /\ p.pc = "inserting"
    THEN {e \in etapes : e.ordre_mission # p.id} \cup p.old
    ELSE etapes

\* the next database call of the handler raises (or the process stops): the
\* request ends with a server error, nothing catches it and nothing undoes
\* the statements already committed
Fail(w) ==
    /\ proc[w].pc \in {"counted", "loaded", "saved", "inserting"}
    /\ proc' = [proc EXCEPT ![w] = Done(@, 500)]
    /\ IF AutoCommit
       THEN UNCHANGED <<missions, etapes>>
       ELSE /\ missions' = RolledBackMissions(proc[w])
            /\ etapes' = RolledBackEtapes(proc[w])
    /\ UNCHANGED <<year, users, employees, attestations, nextId, created,
                   req, resp, sideVars>>

\* the concurrent requests all concern one employee
ConcEmployee == CHOOSE e \in EmployeeIds : \A x \in EmployeeIds : e <= x

ConcAttestationBodies ==
    {b \in AttestationBodies :
        b.reference # Absent /\ b.employee = ConcEmployee}

ConcCreateBodies == {b \in LegCreateBodies : b.missionnaire = ConcEmployee}

ConcPatchBodies == {b \in LegPatchBodies : b.missionnaire = NoId}

NextConc ==
    \/ \E w \in Workers, u \in Clerks, b \in ConcAttestationBodies :
          CountAttestation(w, u, b)
    \/ \E w \in Workers : InsertAttestation(w)
    \/ \E w \in Workers, u \in Clerks, b \in ConcCreateBodies :
          CountMission(w, u, b)
    \/ \E w \in Workers : InsertMission(w)
    \/ \E w \in Workers, u \in Clerks, i \in 1..MaxMissions,
          b \in ConcPatchBodies : LoadMission(w, u, i, b)
    \/ \E w \in Workers : SaveMission(w)
    \/ \E w \in Workers : DeleteEtapes(w)
    \/ \E w \in Workers : InsertEtape(w)
    \/ \E w \in Workers : Fail(w)

SpecConc == Init /\ [][NextConc]_vars

-----------------------------------------------------------------------------
(* accounts: UserViewSet.create *)

UserBodies ==
    [email : Emails \cup {Absent}, first_name : {"Nadia"},
     last_name : {"Haddad"}, role : Roles \cup {"DIRECTEUR"}]

\* faulty variant: the role check of create is left out, IsAuthenticated remains
CanCreateUserAnyRole(u) == IsAuthenticated(u)

\* UserViewSet.create: only ADMINs can create users
CanCreateUser(u) == User(u).role = "ADMIN"

\* UserCreateSerializer.is_valid: email required and unique, role a choice
UserValid(body) ==
    /\ body.email # Absent
    /\ body.email \notin {x.email : x \in users}
    /\ body.role \in Roles

\* UserCreateSerializer.create: create_user with a random temporary password,
\* stored both as the password and as temp_password
UserCreated(i, body, tmp) ==
    [id |-> i, email |-> body.email, first_name |-> body.first_name,
     last_name |-> body.last_name, role |-> body.role,
     password |-> tmp, temp_password |-> tmp]

\* what send_mail(..., fail_silently=False) can do: deliver or raise
MailOutcomes == {"sent", "failed"}

\* faulty variant: the exception of send_mail reaches the caller
UserCreateResponseSurfaced(outcome) ==
    IF outcome = "failed"
    THEN [status |-> 500, detail |-> "Internal Server Error"]
    ELSE [status |-> 201,
          detail |-> "Utilisateur cree avec succes et email envoye avec le mot de passe."]

\* UserViewSet.create, after serializer.save(): send_mail sits in try/except
\* Exception, the handler prints the error and answers 201 either way
UserCreateResponse(outcome) ==
    [status |-> 201,
     detail |-> "Utilisateur cree avec succes et email envoye avec le mot de passe."]

\* POST /api/accounts/users/ ; the welcome email is sent after the row is
\* saved
UserCreate(u, body) ==
    /\ IsAuthenticated(u)
    /\ (CanCreateUser(u) /\ UserValid(body)) => nextId.usr <= MaxUsers
    /\ req' = Request("user_create", NoId, FALSE, <<>>)
    /\ IF ~CanCreateUser(u)
       THEN /\ resp' = 403
            /\ detail' = "Vous n'avez pas la permission de creer des utilisateurs."
            /\ mailed' = "none"
            /\ UNCHANGED <<users, nextId>>
       ELSE IF ~UserValid(body)
       THEN /\ resp' = 400
            /\ detail' = "serializer.errors"
            /\ mailed' = "none"
            /\ UNCHANGED <<users, nextId>>
       ELSE /\ \E tmp \in TempPasswords :
                  users' = users \cup {UserCreated(nextId.usr, body, tmp)}
            /\ nextId' = [nextId EXCEPT !.usr = @ + 1]
            /\ \E outcome \in MailOutcomes :
                  /\ mailed' = outcome
                  /\ resp' = UserCreateResponse(outcome).status
                  /\ detail' = UserCreateResponse(outcome).detail
    /\ UNCHANGED <<year, employees, attestations, missions, etapes, created,
                   proc, now, tokens, notifications, log>>

(* SpecUsers: the user-management requests, one at a time. *)

NextUsers ==
    \E u \in UserIds, b \in UserBodies : UserCreate(u, b)

SpecUsers == Init /\ [][NextUsers]_vars

-----------------------------------------------------------------------------
(* Passwords of the accounts app: change_password and the two password-reset
   views.  The password field of a user row stands for the raw password its
   stored hash verifies; temp_password is stored in clear. *)

MaxDays == 2
MaxTokens == 1

\* "Ce jeton est valide pour 24 heures": one day of the clock
ResetTimeout == 1

NewPasswords == {"Nouveau#2024"}

\* the clock advances by a day
Advance ==
    /\ now < MaxDays
    /\ now' = now + 1
    /\ UNCHANGED <<year, users, employees, attestations, missions, etapes,
                   nextId, created, req, resp, proc, tokens, notifications,
                   log, detail, mailed>>

\* user.check_password(raw)
CheckPassword(u, raw) == raw # Absent /\ u.password = raw

\* user.set_password(raw) ; user.save()
SetPassword(us, uid, raw, clear) ==
    {IF x.id = uid
     THEN [x EXCEPT !.password = raw,
                    !.temp_password = IF clear THEN Absent ELSE @]
     ELSE x : x \in us}

\* default_token_generator hashes the password hash of the user into the
\* token: set_password makes every token issued for the user before stale
Stale(toks, uid) ==
    {IF t.user = uid THEN [t EXCEPT !.fresh = FALSE] ELSE t : t \in toks}

\* urlsafe_base64_encode(force_bytes(user.pk)) for the primary keys 1..9
\* (the '=' padding is stripped)
UidTable == <<"MQ", "Mg", "Mw", "NA", "NQ", "Ng", "Nw", "OA", "OQ">>

EncodeUid(pk) == UidTable[pk]

\* force_str(urlsafe_base64_decode(uid)) then the pk lookup's int(): NoId
\* stands for the ValueError of a text that is no encoded number
DecodeUid(text) ==
    IF \E i \in DOMAIN UidTable : UidTable[i] = text
    THEN CHOOSE i \in DOMAIN UidTable : UidTable[i] = text
    ELSE NoId

\* the uid parts a client may send: of every user, of a primary key that no
\* user has, and a text that does not decode
UidTexts == {EncodeUid(i) : i \in UserIds \cup {MaxUsers + 1}} \cup {"!!"}

\* a token part the client made up
MadeUp == [user |-> NoId, issued |-> 0, fresh |-> FALSE, intact |-> FALSE]

\* the token parts a client may send: a mailed token, intact or altered, or a
\* made-up text
TokenParts ==
    {[user |-> t.user, issued |-> t.issued, fresh |-> t.fresh, intact |-> b] :
        t \in tokens, b \in BOOLEAN}
    \cup {MadeUp}

\* the combined token f"{uid}-{token}" as the client sends it; sep tells
\* whether the text contains a '-', and a text without one has no parts
CombinedTokens ==
    [sep : {TRUE}, uid : UidTexts, tok : TokenParts]
    \cup {[sep |-> FALSE, uid |-> "!!", tok |-> MadeUp]}

\* faulty variant: the age of the token is not looked at
CheckTokenNoExpiry(u, tok, today) ==
    /\ tok.intact
    /\ tok.user = u.id
    /\ tok.fresh

\* default_token_generator.check_token(user, token): the hash must be the one
\* made for this user in its present state, and the token not older than the
\* timeout
CheckToken(u, tok, today) ==
    /\ tok.intact
    /\ tok.user = u.id
    /\ tok.fresh
    /\ today - tok.issued <= ResetTimeout

\* the response of PasswordResetRequestView.post on the user table us
ResetRequestResponse(us, email, outcome) ==
    IF email = Absent
    THEN [status |-> 400, detail |-> "serializer.errors"]
    ELSE IF ~\E x \in us : x.email = email
    THEN [status |-> 200,
          detail |-> "Si l'adresse existe, les instructions de reinitialisation ont ete envoyees."]
    ELSE IF outcome = "failed"
    THEN [status |-> 500,
          detail |-> "Erreur lors de l'envoi de l'email. Veuillez reessayer plus tard."]
    ELSE [status |-> 200,
          detail |-> "Instructions de reinitialisation envoyees a votre adresse email."]

\* the user a reset request for this email addresses, if any
UserByEmail(us, email) ==
    IF \E x \in us : x.email = email
    THEN (CHOOSE x \in us : x.email = email).id
    ELSE NoId

\* POST /api/accounts/password-reset/ (AllowAny)
ResetRequest(email, outcome) ==
    LET uid == UserByEmail(users, email)
        r == ResetRequestResponse(users, email, outcome)
    IN /\ uid # NoId => Cardinality(tokens) < MaxTokens
       /\ req' = Request("reset_request", uid, FALSE, <<>>)
       /\ resp' = r.status
       /\ detail' = r.detail
       /\ mailed' = IF uid = NoId THEN "none" ELSE outcome
       /\ tokens' = IF uid # NoId /\ outcome = "sent"
                    THEN tokens \cup
                           {[user |-> uid, issued |-> now, fresh |-> TRUE]}
                    ELSE tokens
       /\ UNCHANGED <<year, users, employees, attestations, missions, etapes,
                      nextId, created, proc, now, notifications, log>>

\* the response of PasswordResetConfirmView.post on the user table us
ResetConfirmResponse(us, p, new, today) ==
    IF new = Absent
    THEN [status |-> 400, detail |-> "serializer.errors"]
    ELSE IF ~p.sep
    THEN [status |-> 400, detail |-> "Format de jeton invalide."]
    ELSE IF DecodeUid(p.uid) = NoId
    THEN [status |-> 400, detail |-> "Erreur de format"]
    ELSE IF ~\E x \in us : x.id = DecodeUid(p.uid)
    THEN [status |-> 400, detail |-> "Utilisateur non trouve."]
    ELSE IF ~CheckToken(CHOOSE x \in us : x.id = DecodeUid(p.uid), p.tok, today)
    THEN [status |-> 400,
          detail |-> "Le jeton de reinitialisation est invalide ou a expire."]
    ELSE [status |-> 200, detail |-> "Mot de passe reinitialise avec succes."]

\* POST /api/accounts/password-reset/confirm/ (AllowAny)
ResetConfirm(p, new) ==
    LET r == ResetConfirmResponse(users, p, new, now)
        uid == DecodeUid(p.uid)
    IN /\ req' = Request("reset_confirm",
                         IF uid \in UserIds THEN uid ELSE NoId, p.sep, <<p>>)
       /\ resp' = r.status
       /\ detail' = r.detail
       /\ mailed' = "none"
       /\ IF r.status = 200
          THEN /\ users' = SetPassword(users, uid, new, TRUE)
               /\ tokens' = Stale(tokens, uid)
          ELSE UNCHANGED <<users, tokens>>
       /\ UNCHANGED <<year, employees, attestations, missions, etapes, nextId,
                      created, proc, now, notifications, log>>

\* faulty variant: every user sees every user
UserQuerysetAll(actor) == UserIds

\* UserViewSet.get_queryset: all users for an ADMIN, oneself otherwise
UserQueryset(actor) ==
    IF User(actor).role = "ADMIN" THEN UserIds ELSE {actor}

\* change_password (POST users/<pk>/change_password/), as written; in
\* accounts/views.py the def stands at module level, below UserViewSet
ChangePassword(actor, target, old, new) ==
    /\ IsAuthenticated(actor)
    /\ req' = Request("change_password", target, FALSE, <<>>)
    /\ mailed' = "none"
    /\ IF target \notin UserQueryset(actor)
       THEN /\ resp' = 404
            /\ detail' = "Not found."
            /\ UNCHANGED <<users, tokens>>
       ELSE IF actor # target /\ User(actor).role # "ADMIN"
       THEN /\ resp' = 403
            /\ detail' = "Vous n'avez pas la permission de changer ce mot de passe."
            /\ UNCHANGED <<users, tokens>>
       ELSE IF old = Absent \/ new = Absent
       THEN /\ resp' = 400
            /\ detail' = "serializer.errors"
            /\ UNCHANGED <<users, tokens>>
       ELSE IF User(actor).role = "ADMIN" /\ actor # target
       THEN /\ users' = SetPassword(users, target, new, FALSE)
            /\ tokens' = Stale(tokens, target)
            /\ resp' = 200
            /\ detail' = "Mot de passe change avec succes."
       ELSE IF CheckPassword(User(target), old)
       THEN /\ users' = SetPassword(users, target, new, TRUE)
            /\ tokens' = Stale(tokens, target)
            /\ resp' = 200
            /\ detail' = "Mot de passe change avec succes."
       ELSE /\ resp' = 400
            /\ detail' = "Mot de passe incorrect."
            /\ UNCHANGED <<users, tokens>>
    /\ UNCHANGED <<year, employees, attestations, missions, etapes, nextId,
                   created, proc, now, notifications, log>>

\* what the acting user may send as old_password: the own password, a wrong
\* one, nothing
OldPasswords(actor) == {User(actor).password, "faux", Absent}

\* the new accounts an administrator opens in SpecAccounts
AccountBodies ==
    [email : {"sg@esi.dz"}, first_name : {"Nadia"}, last_name : {"Haddad"},
     role : {"SG"}]

(* SpecAccounts: user creation and the password-reset requests, one at a
   time. *)

NextAccounts ==
    \/ Advance
    \/ \E u \in UserIds, b \in AccountBodies : UserCreate(u, b)
    \/ \E e \in Emails \cup {Absent}, o \in MailOutcomes : ResetRequest(e, o)
    \/ \E p \in CombinedTokens, n \in NewPasswords \cup {Absent} :
          ResetConfirm(p, n)

SpecAccounts == Init /\ [][NextAccounts]_vars

(* SpecPasswords: every request that sets a password, one at a time. *)

NextPasswords ==
    \/ Advance
    \/ \E u \in UserIds, b \in AccountBodies : UserCreate(u, b)
    \/ \E e \in Emails \cup {Absent}, o \in MailOutcomes : ResetRequest(e, o)
    \/ \E p \in CombinedTokens, n \in NewPasswords \cup {Absent} :
          ResetConfirm(p, n)
    \/ \E a \in UserIds, t \in UserIds \cup {MaxUsers + 1} :
          \E o \in OldPasswords(a), n \in NewPasswords \cup {Absent} :
             ChangePassword(a, t, o, n)

SpecPasswords == Init /\ [][NextPasswords]_vars

-----------------------------------------------------------------------------
(* Notifications: NotificationViewSet *)

MaxNotifications == 3

NotificationIds == {n.id : n \in notifications}

Notification(i) == CHOOSE n \in notifications : n.id = i

\* the user field of a request body: a user, a key no user has, or nothing
NotificationBodies == [user : UserIds \cup {MaxUsers + 1, NoId}]

\* NotificationSerializer.is_valid: user is required and must exist
NotificationValid(body) == body.user \in UserIds

\* faulty variant: all rows, whoever they are for
NotificationQuerysetAll(rows, u) == rows

\* NotificationViewSet.get_queryset: the notifications of the requesting user
NotificationQueryset(rows, u) == {n \in rows : n.user = u}

\* faulty variant: the exception of send_mail reaches the caller
NotificationCreateResponseSurfaced(outcome) ==
    IF outcome = "failed" THEN 500 ELSE 201

\* NotificationViewSet.perform_create: send_mail sits in try/except Exception
\* after serializer.save(); CreateModelMixin.create then answers 201
NotificationCreateResponse(outcome) == 201

\* POST /api/accounts/notifications/
NotificationCreate(u, body) ==
    /\ IsAuthenticated(u)
    /\ NotificationValid(body) => nextId.ntf <= MaxNotifications
    /\ req' = Request("notification_create", body.user, FALSE, <<>>)
    /\ IF ~NotificationValid(body)
       THEN /\ resp' = 400
            /\ detail' = "serializer.errors"
            /\ mailed' = "none"
            /\ UNCHANGED <<notifications, nextId>>
       ELSE /\ notifications' = notifications \cup
                  {[id |-> nextId.ntf, user |-> body.user, is_read |-> FALSE]}
            /\ nextId' = [nextId EXCEPT !.ntf = @ + 1]
            /\ \E outcome \in MailOutcomes :
                  /\ mailed' = outcome
                  /\ resp' = NotificationCreateResponse(outcome)
            /\ detail' = "serializer.data"
    /\ UNCHANGED <<year, users, employees, attestations, missions, etapes,
                   created, proc, now, tokens, log>>

\* POST /api/accounts/notifications/<pk>/mark_as_read/
MarkAsRead(u, i) ==
    /\ IsAuthenticated(u)
    /\ req' = Request("mark_as_read", u, FALSE, <<i>>)
    /\ mailed' = "none"
    /\ IF i \notin {n.id : n \in NotificationQueryset(notifications, u)}
       THEN /\ resp' = 404
            /\ detail' = "Not found."
            /\ UNCHANGED notifications
       ELSE /\ notifications' =
                  (notifications \ {Notification(i)}) \cup
                     {[Notification(i) EXCEPT !.is_read = TRUE]}
            /\ resp' = 200
            /\ detail' = "notification marked as read"
    /\ UNCHANGED <<year, users, employees, attestations, missions, etapes,
                   nextId, created, proc, now, tokens, log>>

\* DELETE /api/accounts/notifications/<pk>/
NotificationDelete(u, i) ==
    /\ IsAuthenticated(u)
    /\ req' = Request("notification_delete", u, FALSE, <<>>)
    /\ mailed' = "none"
    /\ IF i \notin {n.id : n \in NotificationQueryset(notifications, u)}
       THEN /\ resp' = 404
            /\ detail' = "Not found."
            /\ UNCHANGED notifications
       ELSE /\ notifications' = notifications \ {Notification(i)}
            /\ resp' = 204
            /\ detail' = Absent
    /\ UNCHANGED <<year, users, employees, attestations, missions, etapes,
                   nextId, created, proc, now, tokens, log>>

\* f"{count} notifications marked as read"
CountText(count) == ToString(count) \o " notifications marked as read"

\* POST /api/accounts/notifications/mark_all_as_read/ : count, then update.
\* req records whether the request before was the same call of the same
\* user, and the count reported then
MarkAllAsRead(u) ==
    LET unread == {n \in NotificationQueryset(notifications, u) : ~n.is_read}
        count == Cardinality(unread)
        again == req.op = "mark_all_as_read" /\ req.id = u
    IN /\ IsAuthenticated(u)
       /\ req' = Request("mark_all_as_read", u, again,
                         IF again THEN <<count, req.legs[1]>> ELSE <<count>>)
       /\ mailed' = "none"
       /\ notifications' =
             (notifications \ unread) \cup
                {[n EXCEPT !.is_read = TRUE] : n \in unread}
       /\ resp' = 200
       /\ detail' = CountText(count)
       /\ UNCHANGED <<year, users, employees, attestations, missions, etapes,
                      nextId, created, proc, now, tokens, log>>

(* SpecNotif: the notification requests, one at a time. *)

NextNotif ==
    \/ \E u \in UserIds, b \in NotificationBodies : NotificationCreate(u, b)
    \/ \E u \in UserIds, i \in 1..MaxNotifications : MarkAsRead(u, i)
    \/ \E u \in UserIds, i \in 1..MaxNotifications : NotificationDelete(u, i)
    \/ \E u \in UserIds : MarkAllAsRead(u)

SpecNotif == Init /\ [][NextNotif]_vars

-----------------------------------------------------------------------------
(* The activity log: ActivityLogMiddleware around the views, the
   activity-log API and the statistics view.  Spec, SpecMission and SpecConc
   leave the middleware out: none of their properties reads the log. *)

MaxLog == 1
MaxClock == 8

\* timedelta(days=7) of ActivityLogViewSet.recent
RecentDays == 7

\* one employee can be added to the initial ones
MaxEmployees == Cardinality(EmployeeIds) + 1

\* settings.MIDDLEWARE lists dashboard.middleware.ActivityLogMiddleware
MiddlewareInstalled == TRUE

\* the staff of SpecLog: the two initial users and a secretary general
StaffUsers ==
    InitUsers \cup
       { [id |-> 3, email |-> "sg@esi.dz", first_name |-> "Nadia",
          last_name |-> "Haddad", role |-> "SG",
          password |-> "pwSg", temp_password |-> Absent] }

\* the employees have a certificate and a mission order with one leg, the
\* second the order was given
InitLog ==
    /\ year = FirstYear
    /\ users = StaffUsers
    /\ employees = EmployeeIds
    /\ attestations =
          { [id |-> 1, reference |-> FormatReference("AT", FirstYear, 1),
             employee |-> 1, date_emission |-> FirstYear] }
    /\ missions =
          { [id |-> 1, reference |-> FormatReference("OM", FirstYear, 1),
             missionnaire |-> 2, date_creation |-> FirstYear,
             responsable_emission |-> "Ali Mansouri"] }
    /\ etapes = NewEtapes(1, <<CHOOSE d \in EtapeData : TRUE>>, 2)
    /\ nextId = [att |-> 2, mis |-> 2, eta |-> 3, usr |-> 4, ntf |-> 1,
                 act |-> 1, emp |-> 3]
    /\ created = [k \in {"AT", "OM"} |->
                    [y \in Years |-> IF y = FirstYear THEN 1 ELSE 0]]
    /\ req = NoRequest
    /\ resp = 0
    /\ proc = [w \in Workers |-> Idle]
    /\ now = 0
    /\ tokens = {}
    /\ notifications = {}
    /\ log = {}
    /\ detail = Absent
    /\ mailed = "none"

\* a request path: the text up to the first number, the number if there is
\* one (NoId otherwise), and what follows it
Path(prefix, id, tail) ==
    [prefix |-> prefix, id |-> id, tail |-> tail, next |-> NoId]

\* a path of the nested router: a second number (next) follows the tail
NestedPath(prefix, id, tail, next) ==
    [prefix |-> prefix, id |-> id, tail |-> tail, next |-> next]

\* monitored_patterns; digits tells that the pattern ends in \d+/$
MonitoredPatterns ==
    << [prefix |-> "/api/accounts/login/", digits |-> FALSE,
        action_type |-> "LOGIN", content_type |-> "SYSTEM"],
       [prefix |-> "/api/accounts/logout/", digits |-> FALSE,
        action_type |-> "LOGOUT", content_type |-> "SYSTEM"],
       [prefix |-> "/api/documents/employees/", digits |-> TRUE,
        action_type |-> "VIEW", content_type |-> "EMPLOYEE"],
       [prefix |-> "/api/documents/attestations/", digits |-> TRUE,
        action_type |-> "VIEW", content_type |-> "ATTESTATION"],
       [prefix |-> "/api/documents/missions/", digits |-> TRUE,
        action_type |-> "VIEW", content_type |-> "MISSION"] >>

\* faulty variant: the patterns are not anchored at their end
MatchesPrefix(pat, path) ==
    /\ path.prefix = pat.prefix
    /\ pat.digits = (path.id # NoId)

\* re.match(pattern, path) for the anchored patterns of the table
Matches(pat, path) ==
    /\ path.prefix = pat.prefix
    /\ pat.digits = (path.id # NoId)
    /\ path.tail = ""
    /\ path.next = NoId

\* the index of the first row of the table that matches, 0 if none does
MatchIndex(path) ==
    IF \E i \in DOMAIN MonitoredPatterns : Matches(MonitoredPatterns[i], path)
    THEN CHOOSE i \in DOMAIN MonitoredPatterns :
            /\ Matches(MonitoredPatterns[i], path)
            /\ \A j \in 1..(i - 1) : ~Matches(MonitoredPatterns[j], path)
    ELSE 0

\* faulty variant: every response is taken for a success
SuccessfulAlways(status) == TRUE

\* 200 <= response.status_code < 300
Successful(status) == 200 <= status /\ status < 300

\* the condition under which ActivityLogMiddleware.__call__ logs; actor is
\* NoId for a request without an authenticated user
ShouldLog(actor, status, path) ==
    /\ MiddlewareInstalled
    /\ actor \in UserIds
    /\ Successful(status)
    /\ MatchIndex(path) # 0

\* log_activity: the row the middleware creates; content_id is the number
\* re.search(r'/(\d+)/', path) finds, the first of the path, and timestamp
\* is auto_now_add
LogEntry(actor, path) ==
    LET row == MonitoredPatterns[MatchIndex(path)]
    IN [id |-> nextId.act,
        user |-> actor,
        action_type |-> row.action_type,
        content_type |-> row.content_type,
        content_id |-> path.id,
        timestamp |-> now,
        description |->
           row.action_type \o " " \o row.content_type \o
              (IF path.id # NoId THEN " ID: " \o ToString(path.id) ELSE "")]

\* a request that would be logged waits for room in the bounded log:
\* MaxLog entries on the first day and one more for every day passed
RoomInLog(actor, path) ==
    (actor \in UserIds /\ MatchIndex(path) # 0) =>
       nextId.act <= MaxLog + now

\* ActivityLogMiddleware.__call__ after get_response: the entry is appended to
\* the log the view left (rows) and the response leaves; next holds the keys
\* the view left and body what the response lists.  log_activity is called
\* outside any try: when ActivityLog.objects.create raises (saved is FALSE)
\* the exception leaves the middleware and the client is answered 500, with
\* what the view wrote already committed.  The request records the failure
\* in its field given.
RespondWith(op, actor, path, status, rows, next, body) ==
    \E saved \in BOOLEAN :
       /\ ~ShouldLog(actor, status, path) => saved
       /\ req' = Request(op, actor, ~saved, <<path>> \o body)
       /\ resp' = IF saved THEN status ELSE 500
       /\ log' = IF ShouldLog(actor, status, path) /\ saved
                 THEN rows \cup {LogEntry(actor, path)}
                 ELSE rows
       /\ nextId' = IF ShouldLog(actor, status, path) /\ saved
                    THEN [next EXCEPT !.act = @ + 1]
                    ELSE next

\* a response that lists nothing the properties read
Respond(op, actor, path, status, rows, next) ==
    RespondWith(op, actor, path, status, rows, next, <<>>)

\* the requesting parties: the users, and NoId for an anonymous client
Actors == UserIds \cup {NoId}

\* the status of a request the permission class refuses: 401 without
\* credentials, 403 with
Refused(actor) == IF actor = NoId THEN 401 ELSE 403

\* faulty variant: any authenticated user passes
IsAdminOrRHUserAnyRole(u) == u \in UserIds

\* dashboard.views.IsAdminOrRHUser
IsAdminOrRHUser(u) == u \in UserIds /\ User(u).role \in {"ADMIN", "RH"}

\* the operations on a collection; the others address one row by its key
CollectionOps ==
    {"employee_list", "employee_create", "employee_active",
     "employee_by_category", "activity_list", "activity_recent",
     "activity_create"}

EmployeeOps ==
    {"employee_list", "employee_create", "employee_active",
     "employee_by_category", "employee_retrieve", "employee_update",
     "employee_delete"}

\* the path of an employee request
EmployeePath(op, e) ==
    CASE op \in {"employee_list", "employee_create"} ->
            Path("/api/documents/employees/", NoId, "")
      [] op = "employee_active" ->
            Path("/api/documents/employees/", NoId, "active/")
      [] op = "employee_by_category" ->
            Path("/api/documents/employees/", NoId, "by_category/")
      [] OTHER -> Path("/api/documents/employees/", e, "")

\* the status an administrator gets from EmployeeViewSet for a well-formed
\* request (a valid body, a category given)
EmployeeStatus(op, e) ==
    CASE op \in {"employee_list", "employee_active", "employee_by_category"}
            -> 200
      [] op = "employee_create" -> 201
      [] e \notin employees -> 404
      [] op = "employee_delete" -> 204
      [] OTHER -> 200

\* a request to EmployeeViewSet (permission_classes = [IsAdminUser]); a
\* created employee takes the next free key, a deleted one takes its
\* certificates, mission orders and their legs along
EmployeeRequest(u, op, e) ==
    LET allowed == IsAdminUser(u)
        status == IF allowed THEN EmployeeStatus(op, e) ELSE Refused(u)
        next == IF allowed /\ op = "employee_create"
                THEN [nextId EXCEPT !.emp = @ + 1]
                ELSE nextId
    IN /\ RoomInLog(u, EmployeePath(op, e))
       /\ (allowed /\ op = "employee_create") => nextId.emp <= MaxEmployees
       /\ IF allowed /\ op = "employee_create"
          THEN /\ employees' = employees \cup {nextId.emp}
               /\ UNCHANGED <<attestations, missions, etapes>>
          ELSE IF allowed /\ op = "employee_delete" /\ e \in employees
          THEN /\ employees' = employees \ {e}
               /\ attestations' = {a \in attestations : a.employee # e}
               /\ missions' = {m \in missions : m.missionnaire # e}
               /\ etapes' = CascadeEtapes(etapes, MissionsOfEmployee(e))
          ELSE UNCHANGED <<employees, attestations, missions, etapes>>
       /\ Respond(op, u, EmployeePath(op, e), status, log, next)
       /\ UNCHANGED <<year, users, created, proc, now, tokens, notifications,
                      detail, mailed>>

\* GET /api/documents/attestations/<id>/ and /missions/<id>/
\* (permission_classes = [IsAuthenticated])
DocumentRetrieve(u, kind, i) ==
    LET path == Path(IF kind = "attestation"
                     THEN "/api/documents/attestations/"
                     ELSE "/api/documents/missions/", i, "")
        found == IF kind = "attestation" THEN i \in AttestationIds
                 ELSE i \in MissionIds
        status == IF ~IsAuthenticated(u) THEN Refused(u)
                  ELSE IF found THEN 200 ELSE 404
    IN /\ RoomInLog(u, path)
       /\ Respond(kind \o "_retrieve", u, path, status, log, nextId)
       /\ UNCHANGED <<year, users, employees, attestations, missions, etapes,
                      created, proc, now, tokens, notifications, detail,
                      mailed>>

\* GET /api/documents/missions/<id>/etapes/ (OrdreMissionViewSet.etapes,
\* e = NoId) and GET /api/documents/missions/<id>/etapes/<e>/
\* (EtapeMissionViewSet.retrieve): the first number is followed by more
MissionEtapes(u, i, e) ==
    LET path == IF e = NoId
                THEN Path("/api/documents/missions/", i, "etapes/")
                ELSE NestedPath("/api/documents/missions/", i, "etapes/", e)
        found == IF e = NoId THEN i \in MissionIds
                 ELSE e \in {x.id : x \in EtapeQueryset(i)}
        status == IF ~IsAuthenticated(u) THEN Refused(u)
                  ELSE IF found THEN 200 ELSE 404
    IN /\ Respond("mission_etapes", u, path, status, log, nextId)
       /\ UNCHANGED <<year, users, employees, attestations, missions, etapes,
                      created, proc, now, tokens, notifications, detail,
                      mailed>>

\* POST /api/accounts/login/ : TokenObtainPairView authenticates no one
\* (authentication_classes = ()), so request.user stays anonymous
\* u is the user whose email the client presents, ok tells that the
\* password is theirs; the response lists the user of the token pair
Login(u, ok) ==
    /\ RespondWith("login", NoId, Path("/api/accounts/login/", NoId, ""),
                   IF ok THEN 200 ELSE 401, log, nextId,
                   IF ok THEN <<u>> ELSE <<>>)
    /\ UNCHANGED <<year, users, employees, attestations, missions, etapes,
                   created, proc, now, tokens, notifications, detail, mailed>>

\* POST /api/accounts/logout/ (IsAuthenticated): 200 when the refresh token
\* is blacklisted, 400 when it is missing or invalid
Logout(u, ok) ==
    LET path == Path("/api/accounts/logout/", NoId, "")
        status == IF ~IsAuthenticated(u) THEN Refused(u)
                  ELSE IF ok THEN 200 ELSE 400
    IN /\ RoomInLog(u, path)
       /\ Respond("logout", u, path, status, log, nextId)
       /\ UNCHANGED <<year, users, employees, attestations, missions, etapes,
                      created, proc, now, tokens, notifications, detail,
                      mailed>>

LogIds == {x.id : x \in log}

ActivityOps ==
    {"activity_list", "activity_recent", "activity_retrieve",
     "activity_create", "activity_update", "activity_delete"}

ActivityPath(op, i) ==
    CASE op \in {"activity_list", "activity_create"} ->
            Path("/api/dashboard/activities/", NoId, "")
      [] op = "activity_recent" ->
            Path("/api/dashboard/activities/", NoId, "recent/")
      [] OTHER -> Path("/api/dashboard/activities/", i, "")

\* the status an ADMIN or RH user gets from ActivityLogViewSet.  A create
\* with a complete body ends in the TypeError of
\* ActivityLog.objects.create(get_action_type_display=...), since the
\* writable fields action_name and content_name have a method as source
ActivityStatus(op, i) ==
    CASE op \in {"activity_list", "activity_recent"} -> 200
      [] op = "activity_create" -> 500
      [] i \notin LogIds -> 404
      [] op = "activity_delete" -> 204
      [] OTHER -> 200

\* faulty variant: an entry exactly RecentDays old is left out
RecentAfter(rows, today) ==
    {x \in rows : x.timestamp > today - RecentDays}

\* ActivityLog.objects.filter(timestamp__gte=timezone.now() - timedelta(7))
Recent(rows, today) ==
    {x \in rows : x.timestamp >= today - RecentDays}

\* ModelSerializer.update of a PATCH that carries a description
ActivityUpdated(rows, i) ==
    {IF x.id = i THEN [x EXCEPT !.description = "edited"] ELSE x : x \in rows}

\* a request to ActivityLogViewSet (permission_classes = [IsAdminOrRHUser]);
\* the response to recent lists the entries of the last RecentDays days
ActivityRequest(u, op, i) ==
    LET allowed == IsAdminOrRHUser(u)
        status == IF allowed THEN ActivityStatus(op, i) ELSE Refused(u)
        rows == IF allowed /\ i \in LogIds /\ op = "activity_update"
                THEN ActivityUpdated(log, i)
                ELSE IF allowed /\ i \in LogIds /\ op = "activity_delete"
                THEN {x \in log : x.id # i}
                ELSE log
    IN /\ RespondWith(op, u, ActivityPath(op, i), status, rows, nextId,
                      IF allowed /\ op = "activity_recent"
                      THEN <<Recent(log, now)>> ELSE <<>>)
       /\ UNCHANGED <<year, users, employees, attestations, missions, etapes,
                      created, proc, now, tokens, notifications, detail,
                      mailed>>

\* GET /api/dashboard/stats/ (permission_classes = [IsAdminOrRHUser])
StatsRequest(u) ==
    /\ Respond("stats", u, Path("/api/dashboard/stats/", NoId, ""),
               IF IsAdminOrRHUser(u) THEN 200 ELSE Refused(u), log, nextId)
    /\ UNCHANGED <<year, users, employees, attestations, missions, etapes,
                   created, proc, now, tokens, notifications, detail, mailed>>

(* SpecLog: requests of the staff and of anonymous clients, one at a time,
   each passing through the middleware.  The employees are read, updated
   and deleted; SpecGate has their creation. *)

NextLog ==
    \/ \E u \in UserIds : EmployeeRequest(u, "employee_list", NoId)
    \/ \E u \in UserIds, op \in EmployeeOps \ CollectionOps,
           e \in 1..MaxEmployees : EmployeeRequest(u, op, e)
    \/ \E u \in Actors, k \in {"attestation", "mission"}, i \in 1..2 :
          DocumentRetrieve(u, k, i)
    \/ \E u \in UserIds, i \in 1..2, e \in {NoId, 2} : MissionEtapes(u, i, e)
    \/ \E u \in UserIds, ok \in BOOLEAN : Login(u, ok)
    \/ \E u \in UserIds, ok \in BOOLEAN : Logout(u, ok)
    \/ \E u \in UserIds, op \in ActivityOps \cap CollectionOps :
          ActivityRequest(u, op, NoId)
    \/ \E u \in UserIds, op \in ActivityOps \ CollectionOps,
           i \in 1..MaxLog : ActivityRequest(u, op, i)

(* SpecGate: the requests to the views behind a role, one at a time. *)

NextGate ==
    \/ \E u \in UserIds, op \in EmployeeOps \cap CollectionOps :
          EmployeeRequest(u, op, NoId)
    \/ \E u \in UserIds, op \in EmployeeOps \ CollectionOps,
           e \in 1..MaxEmployees : EmployeeRequest(u, op, e)
    \/ \E u \in UserIds, op \in ActivityOps \cap CollectionOps :
          ActivityRequest(u, op, NoId)
    \/ \E u \in UserIds, op \in ActivityOps \ CollectionOps,
           i \in 1..MaxLog : ActivityRequest(u, op, i)
    \/ \E u \in UserIds : StatsRequest(u)

SpecGate == InitLog /\ [][NextGate]_vars

SpecLog == InitLog /\ [][NextLog]_vars

\* a day passes
DayPasses ==
    /\ now < MaxClock
    /\ now' = now + 1
    /\ UNCHANGED <<year, users, employees, attestations, missions, etapes,
                   nextId, created, req, resp, proc, tokens, notifications,
                   log, detail, mailed>>

(* SpecRecent: the administrator reads a certificate now and then, and the
   RH and SG users ask for the recent activity, as the days pass. *)

NextRecent ==
    \/ DayPasses
    \/ DocumentRetrieve(1, "attestation", 1)
    \/ \E u \in Clerks : ActivityRequest(u, "activity_recent", NoId)

SpecRecent == InitLog /\ [][NextRecent]_vars



-----------------------------------------------------------------------------
(* User management: the routes of UserViewSet beside create, and the
   authentication backend.  is_active is left out: no handler reads it. *)

\* what a PATCH of a user carries: an email or a role
UserPatchBodies ==
    [email : {"new@esi.dz"}, role : {Absent}] \cup
    [email : {Absent}, role : {"ADMIN", "DIRECTEUR"}]

\* faulty variant: the email column carries no unique constraint
EmailFreeAlways(us, email, except) == TRUE

\* unique=True of CustomUser.email, as the UniqueValidator of the serializer
\* checks it: no other row than the one being updated has the email
EmailFree(us, email, except) ==
    \A x \in us : x.email = email => x.id = except

\* UserSerializer.is_valid(partial=True)
UserPatchValid(us, target, body) ==
    /\ body.email # Absent => EmailFree(us, body.email, target)
    /\ body.role \in Roles \cup {Absent}

\* ModelSerializer.update: every field of the body is written
UserPatched(us, target, body) ==
    {IF x.id = target
     THEN [x EXCEPT !.email = IF body.email = Absent THEN @ ELSE body.email,
                    !.role = IF body.role = Absent THEN @ ELSE body.role]
     ELSE x : x \in us}

\* PATCH /api/accounts/users/<pk>/ (permission_classes = [IsAuthenticated])
UserUpdate(actor, target, body) ==
    /\ IsAuthenticated(actor)
    /\ req' = Request("user_update", actor, FALSE, <<target>>)
    /\ IF target \notin UserQueryset(actor)
       THEN /\ resp' = 404
            /\ UNCHANGED users
       ELSE IF ~UserPatchValid(users, target, body)
       THEN /\ resp' = 400
            /\ UNCHANGED users
       ELSE /\ resp' = 200
            /\ users' = UserPatched(users, target, body)
    /\ UNCHANGED <<year, employees, attestations, missions, etapes, nextId,
                   created, proc, sideVars>>

\* DELETE /api/accounts/users/<pk>/ : the row goes, its notifications with
\* it (on_delete=CASCADE), and its activity entries lose their user
\* (on_delete=SET_NULL)
UserDelete(actor, target) ==
    /\ IsAuthenticated(actor)
    /\ req' = Request("user_delete", actor, FALSE, <<target>>)
    /\ IF target \notin UserQueryset(actor)
       THEN /\ resp' = 404
            /\ UNCHANGED <<users, notifications, log>>
       ELSE /\ resp' = 204
            /\ users' = {x \in users : x.id # target}
            /\ notifications' = {n \in notifications : n.user # target}
            /\ log' = {IF x.user = target THEN [x EXCEPT !.user = NoId]
                       ELSE x : x \in log}
    /\ UNCHANGED <<year, employees, attestations, missions, etapes, nextId,
                   created, proc, now, tokens, detail, mailed>>

\* EmailBackend.authenticate: the key of the user returned, NoId for None
Authenticate(us, email, password) ==
    LET found == {u \in us : u.email = email}
        user == CHOOSE u \in found : TRUE
        first == CHOOSE u \in found : \A v \in found : u.id <= v.id
    IN IF found = {} THEN NoId
       ELSE IF Cardinality(found) > 1 THEN first.id
       ELSE IF CheckPassword(user, password) THEN user.id
       ELSE NoId

\* the passwords a client may present
PresentedPasswords == {"pwSg", "faux", Absent}

\* a call of the backend with the credentials of a client
AuthenticateCall(email, password) ==
    /\ req' = Request("authenticate", Authenticate(users, email, password),
                      FALSE, <<>>)
    /\ resp' = IF Authenticate(users, email, password) # NoId
               THEN 200 ELSE 401
    /\ UNCHANGED <<year, users, employees, attestations, missions, etapes,
                   nextId, created, proc, sideVars>>

(* SpecManage: the staff managing the user records and clients
   authenticating, one request at a time. *)

NextManage ==
    \/ \E u \in UserIds, b \in AccountBodies : UserCreate(u, b)
    \/ \E a \in UserIds, t \in 1..nextId.usr, b \in UserPatchBodies :
          UserUpdate(a, t, b)
    \/ \E a \in UserIds, t \in 1..nextId.usr : UserDelete(a, t)
    \/ \E e \in Emails, p \in PresentedPasswords : AuthenticateCall(e, p)

SpecManage == InitLog /\ [][NextManage]_vars



-----------------------------------------------------------------------------
(* SpecNotifConc: mark_all_as_read interleaving with other notification
   requests at its two database calls.

   notifications.count() and notifications.update(is_read=True) are two
   statements built from the same lazy queryset; each evaluates the filter
   (user = request.user, is_read = False) against the rows committed when it
   runs. A statement of another request may commit in between. *)

\* mark_all_as_read up to the count query: SELECT COUNT(*) ... WHERE
\* user_id = u AND NOT is_read
CountUnread(w, u) ==
    /\ Free(w)
    /\ IsAuthenticated(u)
    /\ proc' = [proc EXCEPT ![w] =
          [Idle EXCEPT !.pc = "counted", !.op = "mark_all_as_read",
                       !.id = u,
                       !.k = Cardinality(
                          {n \in NotificationQueryset(notifications, u) :
                              ~n.is_read})]]
    /\ UNCHANGED <<year, users, employees, attestations, missions, etapes,
                   nextId, created, req, resp, sideVars>>

\* mark_all_as_read from the update on: UPDATE ... SET is_read = TRUE WHERE
\* user_id = u AND NOT is_read, then the response built from the count taken
\* before. seen keeps the rows this statement changed
UpdateUnread(w) ==
    LET u == proc[w].id
        unread == {n \in NotificationQueryset(notifications, u) : ~n.is_read}
    IN /\ proc[w].pc = "counted" /\ proc[w].op = "mark_all_as_read"
       /\ notifications' =
             (notifications \ unread) \cup
                {[n EXCEPT !.is_read = TRUE] : n \in unread}
       /\ proc' = [proc EXCEPT ![w] =
             Done([@ EXCEPT !.seen = {n.id : n \in unread}], 200)]
       /\ req' = Request("mark_all_as_read", u, FALSE, <<proc[w].k>>)
       /\ resp' = 200
       /\ detail' = CountText(proc[w].k)
       /\ mailed' = "none"
       /\ UNCHANGED <<year, users, employees, attestations, missions, etapes,
                      nextId, created, now, tokens, log>>

NextNotifConc ==
    \/ \E w \in Workers, u \in UserIds : CountUnread(w, u)
    \/ \E w \in Workers : UpdateUnread(w)
    \/ \E u \in UserIds, b \in NotificationBodies : NotificationCreate(u, b)
    \/ \E u \in UserIds, i \in 1..MaxNotifications : MarkAsRead(u, i)

SpecNotifConc == Init /\ [][NextNotifConc]_vars

-----------------------------------------------------------------------------
(* Properties of the reference allocator (Spec) *)

NewestAttestation == Attestation(nextId.att - 1)

NewestMission == Mission(nextId.mis - 1)

\* C1: in a sequential history of creations and deletions, the Nth
\* certificate created in year Y carries AT-Y-<N padded to 4 digits> and the
\* Nth mission order created in year Y carries OM-Y-<N padded to 4 digits>.
C1_NthCreatedReference ==
    /\ (req.op = "attestation_create" /\ resp = 201) =>
          NewestAttestation.reference =
             FormatReference("AT", NewestAttestation.date_emission,
                             created["AT"][NewestAttestation.date_emission])
    /\ (req.op = "mission_create" /\ resp = 201) =>
          NewestMission.reference =
             FormatReference("OM", NewestMission.date_creation,
                             created["OM"][NewestMission.date_creation])

\* C2: no two existing certificates of the same issuance year, and no two
\* existing mission orders of the same creation year, share a reference.
C2_ReferenceUniqueInYear ==
    /\ \A a, b \in attestations :
          (a.id # b.id /\ a.date_emission = b.date_emission) =>
             a.reference # b.reference
    /\ \A m, n \in missions :
          (m.id # n.id /\ m.date_creation = n.date_creation) =>
             m.reference # n.reference

\* C8: the stored responsable_emission of a mission order is never a value
\* chosen by the client: after any create or update it is the name of a user.
C8_ResponsableNeverClientChosen ==
    \A m \in missions :
       m.responsable_emission \in {FullName(u) : u \in users}

-----------------------------------------------------------------------------
(* Properties of the order-and-legs aggregate (SpecMission) *)

\* C4: a completed mission-order update that supplies a leg list (the empty
\* list included) leaves the order with exactly the supplied legs, all of them
\* freshly inserted rows and none of the rows it had before. The contents
\* after the update depend on the supplied list alone, so the same update
\* applied a second time yields the same leg contents (idempotent replace).
C4_UpdateReplacesLegs ==
    (req.op = "mission_update" /\ req.given /\ resp = 200) =>
       /\ LegBag(etapes, req.id) = SeqBag(req.legs)
       /\ \A e \in EtapesOf(etapes, req.id) :
             e.id >= nextId.eta - Len(req.legs)

\* a supplied non-empty leg list has replaced the legs the order had: the
\* order holds legs, and leg keys allocated earlier are gone
C4_Witness ==
    /\ req.op = "mission_update" /\ req.given /\ resp = 200
    /\ req.legs # <<>>
    /\ nextId.eta - 1 > Len(req.legs)
    /\ etapes = EtapesOf(etapes, req.id)

\* C5: a mission-order update that omits the leg list changes only scalar
\* fields of that order: every leg row of this and of every other order, and
\* the set of orders, are what they were before.
C5_UpdateWithoutLegsKeepsLegs ==
    [][ (req'.op = "mission_update" /\ ~req'.given /\ resp' = 200) =>
          /\ etapes' = etapes
          /\ MissionIds' = MissionIds
          /\ Cardinality(missions' \ missions) <= 1
          /\ UNCHANGED <<employees, attestations, nextId>> ]_vars

\* an update without legs has succeeded on a database that holds legs
C5_Witness ==
    /\ req.op = "mission_update" /\ ~req.given /\ resp = 200
    /\ etapes # {}

\* C9: every leg references exactly one existing mission order, and a step
\* that deletes orders (directly or with their employee) removes all legs of
\* the deleted orders and no leg of any other order.
C9_LegsBelongToOrders ==
    [][ /\ \A e \in etapes' :
              Cardinality({m \in missions' : m.id = e.ordre_mission}) = 1
        /\ (MissionIds' # MissionIds /\ MissionIds' \subseteq MissionIds) =>
              etapes' = {e \in etapes : e.ordre_mission \in MissionIds'} ]_vars

\* an employee was deleted with their orders and legs while legs of another
\* order remain
C9_Witness ==
    /\ req.op = "employee_delete" /\ resp = 204
    /\ etapes # {}
    /\ Cardinality(MissionIds) < nextId.mis - 1

-----------------------------------------------------------------------------
(* Properties of user management (SpecUsers) *)

\* C10: a create-user request of an authenticated user whose role is not
\* ADMIN is answered 403 and leaves the set of user records as it was.
C10_NonAdminCannotCreateUser ==
    [][ \A u \in UserIds, b \in UserBodies :
           (User(u).role # "ADMIN" /\ UserCreate(u, b)) =>
              (resp' = 403 /\ users' = users) ]_vars

\* a create-user request was rejected while users created by the
\* administrator exist, one of them not an administrator
C10_Witness ==
    /\ req.op = "user_create" /\ resp = 403
    /\ \E x \in users : x.id > 2 /\ x.role # "ADMIN"

-----------------------------------------------------------------------------
(* Properties of concurrent requests (SpecConc) *)

IsCreate(p) == p.op \in {"attestation_create", "mission_create"}

\* the reference stored in the row a finished creation inserted
StoredReference(p) ==
    IF p.op = "attestation_create" THEN Attestation(p.id).reference
    ELSE Mission(p.id).reference

StoredYear(p) ==
    IF p.op = "attestation_create" THEN Attestation(p.id).date_emission
    ELSE Mission(p.id).date_creation

RowStored(p) ==
    IF p.op = "attestation_create" THEN p.id \in AttestationIds
    ELSE p.id \in MissionIds

\* two creations of the same kind that ran their count query in the same year
\* on the same rows, hence both before either inserted, and both completed
Raced(p, q) ==
    /\ IsCreate(p) /\ p.op = q.op
    /\ p.pc = "done" /\ q.pc = "done"
    /\ p.status = 201 /\ q.status = 201
    /\ p.today = q.today
    /\ p.seen = q.seen

\* C3: when two creations of the same kind and year both count before either
\* inserts, both compute the same sequence number and both rows are stored:
\* two documents of one kind and year carry the identical reference.
C3_RaceYieldsDuplicate ==
    \A w, v \in Workers :
       (w # v /\ Raced(proc[w], proc[v])) =>
          /\ proc[w].reference = proc[v].reference
          /\ proc[w].id # proc[v].id
          /\ RowStored(proc[w]) /\ RowStored(proc[v])
          /\ StoredReference(proc[w]) = StoredReference(proc[v])

\* the state the claim says is reachable
C3_Witness ==
    \E w, v \in Workers :
       /\ w # v /\ Raced(proc[w], proc[v])
       /\ RowStored(proc[w]) /\ RowStored(proc[v])
       /\ StoredYear(proc[w]) = StoredYear(proc[v])
       /\ StoredReference(proc[w]) = StoredReference(proc[v])

BagOfRows(rows) ==
    [d \in EtapeData |-> Cardinality({e \in rows : e.data = d})]

\* the legs of the order an update addresses are its complete old set or
\* the complete set it supplies
OldOrSupplied(rows, p) ==
    \/ LegBag(rows, p.id) = BagOfRows(p.old)
    \/ LegBag(rows, p.id) = SeqBag(p.body.etapes.list)

\* C6: leg replacement on update is atomic: no step of an update that
\* supplies legs, its failure between two steps included, takes the order
\* from the complete old set or the complete supplied set to a set that is
\* neither (empty in between, or a partial mixture).
C6_LegReplacementAtomic ==
    [][ \A w \in Workers :
           (/\ proc[w].op = "mission_update"
            /\ proc[w].body.etapes.given
            /\ proc'[w] # proc[w]
            /\ OldOrSupplied(etapes, proc[w])) =>
              OldOrSupplied(etapes', proc[w]) ]_vars

\* C7: when a create request for a mission order ends, in success or by a
\* failure at any insertion, the order exists together with all the supplied
\* legs or neither the order nor any leg of it exists; a create with zero
\* legs succeeds and leaves an order without legs.
C7_CreateOrderOneUnit ==
    [][ \A w \in Workers :
           (proc'[w].op = "mission_create" /\ proc[w].pc # "done"
              /\ proc'[w].pc = "done") =>
              /\ \/ /\ proc'[w].id \in MissionIds'
                    /\ LegBag(etapes', proc'[w].id) =
                          SeqBag(proc'[w].body.etapes.list)
                 \/ /\ proc'[w].id \notin MissionIds'
                    /\ EtapesOf(etapes', proc'[w].id) = {}
              /\ proc'[w].status = 201 => proc'[w].id \in MissionIds' ]_vars

-----------------------------------------------------------------------------
(* Properties of the password requests (SpecAccounts, SpecPasswords) *)

\* the tokens C11 lists: malformed (no separator, undecodable uid), tampered
\* with, expired, or issued for another user than the uid names
Rejectable(p) ==
    \/ ~p.sep
    \/ DecodeUid(p.uid) = NoId
    \/ ~p.tok.intact
    \/ now - p.tok.issued > ResetTimeout
    \/ p.tok.user # DecodeUid(p.uid)

\* every user of before is there after with the same passwords
PasswordsKept ==
    \A u \in users : \E v \in users' :
       /\ v.id = u.id
       /\ v.password = u.password
       /\ v.temp_password = u.temp_password

\* C11: a password-reset confirmation whose token is expired, tampered with,
\* malformed or issued for another user is answered 400, and it changes the
\* password and the temporary password of no user.
C11_BadTokenRejected ==
    [][ \A n \in NewPasswords \cup {Absent} :
           ( /\ req'.op = "reset_confirm"
             /\ Rejectable(req'.legs[1])
             /\ ResetConfirm(req'.legs[1], n) ) =>
              (resp' = 400 /\ PasswordsKept /\ UserIds' = UserIds) ]_vars

\* a mailed token, unaltered and sent with the uid of its user, was refused
\* because it had expired
C11_Witness ==
    /\ req.op = "reset_confirm"
    /\ resp = 400
    /\ req.legs # <<>>
    /\ LET p == req.legs[1]
       IN /\ p.sep
          /\ DecodeUid(p.uid) \in UserIds
          /\ p.tok.intact
          /\ p.tok.fresh
          /\ p.tok.user = DecodeUid(p.uid)
          /\ now - p.tok.issued > ResetTimeout

\* the user table without the account uid
Without(us, uid) == {x \in us : x.id # uid}

\* C12: password-reset responses do not reveal whether an account exists: a
\* reset request for the email of an account, and a failing confirmation
\* that names the uid of an account, are answered with the status and the
\* message they would get if that account did not exist.
C12_ResetRevealsNothing ==
    [][ /\ \A e \in Emails, o \in MailOutcomes :
              (ResetRequest(e, o) /\ UserByEmail(users, e) # NoId) =>
                 [status |-> resp', detail |-> detail'] =
                    ResetRequestResponse(
                       Without(users, UserByEmail(users, e)), e, o)
        /\ \A p \in CombinedTokens, n \in NewPasswords :
              (ResetConfirm(p, n) /\ resp' # 200
                 /\ DecodeUid(p.uid) \in UserIds) =>
                 [status |-> resp', detail |-> detail'] =
                    ResetConfirmResponse(
                       Without(users, DecodeUid(p.uid)), p, n, now) ]_vars

CreationHidesMailFailure ==
    \A u \in UserIds, b \in AccountBodies :
       (UserCreate(u, b) /\ mailed' \in MailOutcomes) =>
          /\ [status |-> resp', detail |-> detail'] = UserCreateResponse("sent")
          /\ \E x \in users' : x.id \notin UserIds /\ x.email = b.email

-----------------------------------------------------------------------------
(* Properties of the notifications (SpecNotif) *)

\* the unread notifications of user u among rows
UnreadOf(rows, u) == {n \in rows : n.user = u /\ ~n.is_read}

\* C16: mark_all_as_read by user U with k unread notifications reports k and
\* leaves U no unread notification, touching nothing but the is_read of those
\* k rows; called again by U right after, it reports 0 and changes nothing.
C16_MarkAllTwice ==
    [][ \A u \in UserIds :
           MarkAllAsRead(u) =>
              /\ detail' = CountText(Cardinality(UnreadOf(notifications, u)))
              /\ UnreadOf(notifications', u) = {}
              /\ notifications' \ {[n EXCEPT !.is_read = TRUE] :
                                      n \in UnreadOf(notifications, u)}
                    = notifications \ UnreadOf(notifications, u)
              /\ (req.op = "mark_all_as_read" /\ req.id = u) =>
                    /\ detail' = CountText(0)
                    /\ notifications' = notifications ]_vars

\* the second of two successive calls reported 0 after the first reported
\* two or more
C16_Witness ==
    /\ req.op = "mark_all_as_read"
    /\ req.given
    /\ req.legs[1] = 0
    /\ req.legs[2] >= 2
    /\ detail = CountText(0)
    /\ \E n \in notifications : n.user # req.id /\ ~n.is_read

\* C17: creating a notification with valid data stores the row and answers
\* 201 whether the email transport succeeds or raises.
C17_NotificationCreated ==
    [][ \A u \in UserIds, b \in NotificationBodies :
           (NotificationValid(b) /\ NotificationCreate(u, b)) =>
              /\ resp' = 201
              /\ mailed' \in MailOutcomes
              /\ notifications \subseteq notifications'
              /\ \E n \in notifications' \ notifications :
                    n.user = b.user /\ ~n.is_read ]_vars

\* a notification was stored and 201 answered although the email failed
C17_Witness ==
    /\ req.op = "notification_create"
    /\ mailed = "failed"
    /\ resp = 201
    /\ \E n \in notifications : n.id = nextId.ntf - 1 /\ n.user = req.id

-----------------------------------------------------------------------------
(* Properties of document creation (Spec) *)

\* C19: a certificate creation that supplies the employee and no reference
\* is accepted and stores the generated reference; a mission-order creation
\* that omits reference and responsable_emission is accepted; and when the
\* client sends a reference on creation, the generated one is stored.
C19_CreateWithoutReference ==
    [][ /\ \A u \in Clerks, b \in AttestationBodies :
              (AttestationCreate(u, b) /\ b.employee \in employees) =>
                 /\ resp' = 201
                 /\ \E a \in attestations' \ attestations :
                       /\ a.reference = AttestationReference(attestations, year)
                       /\ a.reference # b.reference
        /\ \A u \in UserIds, b \in RefMissionBodies :
              (MissionCreate(u, b) /\ b.missionnaire \in employees) =>
                 /\ resp' = 201
                 /\ \E m \in missions' \ missions :
                       /\ m.reference = MissionReference(missions, year)
                       /\ m.reference # b.reference ]_vars
-----------------------------------------------------------------------------
(* Properties of the activity log and of role gating (SpecLog) *)

\* the entries of rows whose key is not in the log before the step
NewEntries(rows) == {x \in rows : x.id \notin LogIds}

\* C14: the activity log is append-only: no operation, the activity-log API
\* of ADMIN and RH users included, changes a field of an existing entry or
\* removes it, so every entry of the log is in the log after every step.
C14_LogAppendOnly == [][\A x \in log : x \in log']_vars

\* C15: a request appends exactly one entry if it is authenticated, its
\* status is 2xx and its path matches a row of the monitored table, and no
\* entry otherwise; the entry carries the requesting user and the action and
\* content type of the first matching row.
C15_OneEntryPerLoggedRequest ==
    [][ LET actor == req'.id
            path == req'.legs[1]
            hits == {i \in DOMAIN MonitoredPatterns :
                        Matches(MonitoredPatterns[i], path)}
            first == CHOOSE i \in hits : \A j \in hits : i <= j
        IN IF actor \in UserIds /\ resp' >= 200 /\ resp' <= 299 /\ hits # {}
           THEN /\ Cardinality(NewEntries(log')) = 1
                /\ \A x \in NewEntries(log') :
                      /\ x.user = actor
                      /\ x.action_type = MonitoredPatterns[first].action_type
                      /\ x.content_type = MonitoredPatterns[first].content_type
           ELSE NewEntries(log') = {} ]_vars

\* a deletion answered 204 left an entry VIEW EMPLOYEE of the deleting user
C15_Witness ==
    /\ req.op = "employee_delete"
    /\ resp = 204
    /\ \E x \in log :
          /\ x.id = nextId.act - 1
          /\ x.user = req.id
          /\ x.action_type = "VIEW"
          /\ x.content_type = "EMPLOYEE"
          /\ x.content_id = req.legs[1].id

\* C20: an employee operation asked by a user who is not ADMIN, and an
\* activity-log or statistics operation asked by a user who is neither
\* ADMIN nor RH, is answered 403 and leaves the employees, the documents
\* and the activity log as they were.
C20_RoleGatingNoSideEffect ==
    [][ LET actor == req'.id
            gated ==
               \/ /\ req'.op \in EmployeeOps
                  /\ User(actor).role # "ADMIN"
               \/ /\ req'.op \in ActivityOps \cup {"stats"}
                  /\ User(actor).role \notin {"ADMIN", "RH"}
        IN (actor \in UserIds /\ gated) =>
              /\ resp' = 403
              /\ UNCHANGED <<employees, attestations, missions, etapes, log>>
      ]_vars

\* an RH user was refused the deletion of an employee who has documents
C20_Witness ==
    /\ req.op = "employee_delete"
    /\ req.id \in UserIds
    /\ User(req.id).role = "RH"
    /\ resp = 403
    /\ req.legs[1].id \in employees
    /\ \E a \in attestations : a.employee = req.legs[1].id
-----------------------------------------------------------------------------
(* Properties of user management (SpecManage) *)

\* C21: no request removes a user record: every user of a state is a user
\* of every later state.
C21_UsersNeverRemoved == [][UserIds \subseteq UserIds']_vars

\* C21, as the code has it: a user record is removed only by a DELETE on the
\* record answered 204, asked by an ADMIN or by the user of the record, and
\* the request removes no other record.
C21_UsersRemovedOnlyByDelete ==
    [][ \A x \in users :
           x.id \notin UserIds' =>
              /\ req'.op = "user_delete"
              /\ resp' = 204
              /\ req'.legs = <<x.id>>
              /\ req'.id \in UserIds
              /\ (User(req'.id).role = "ADMIN" \/ req'.id = x.id) ]_vars

\* the RH user deleted their own record
C21_Witness ==
    /\ req.op = "user_delete"
    /\ resp = 204
    /\ req.legs = <<req.id>>
    /\ req.id = 2
    /\ 2 \notin UserIds

\* C23: a request of a user whose role is not ADMIN changes the role of no
\* user, the own role included.
C23_NonAdminCannotChangeRole ==
    [][ ( /\ req'.op \in {"user_update", "user_delete"}
          /\ req'.id \in UserIds
          /\ User(req'.id).role # "ADMIN" ) =>
           \A x \in users, y \in users' : x.id = y.id => x.role = y.role
      ]_vars

\* C30: authenticate returns a user exactly when a user has the email and
\* the password presented is the stored one, and that user is the one
\* returned; no two users share an email, so the branch for several matches
\* is never taken.
C30_AuthenticateChecksPassword ==
    [][ req'.op = "authenticate" =>
           \A e \in Emails, p \in PresentedPasswords :
              AuthenticateCall(e, p) =>
                 LET found == {u \in users : u.email = e}
                 IN /\ Cardinality(found) <= 1
                    /\ req'.id # NoId <=>
                          \E u \in found : p # Absent /\ u.password = p
                    /\ req'.id # NoId =>
                          \E u \in found :
                             /\ u.id = req'.id
                             /\ p # Absent
                             /\ u.password = p ]_vars

\* the SG user authenticated under the email they changed to
C30_Witness ==
    /\ req.op = "authenticate"
    /\ req.id = 3
    /\ resp = 200
    /\ User(3).email = "new@esi.dz"
-----------------------------------------------------------------------------
(* Properties of the recent-activity listing (SpecRecent) *)

\* C22: the recent-activity listing asked at time T holds only entries whose
\* timestamp t satisfies t >= T - 7 days, and an entry exactly 7 days old is
\* in it, whatever other entries the log holds.
C22_RecentWindow ==
    [][ \A u \in UserIds :
           ( /\ ActivityRequest(u, "activity_recent", NoId)
             /\ IsAdminOrRHUser(u) ) =>
              /\ Len(req'.legs) = 2
              /\ \A x \in req'.legs[2] : x \in log /\ x.timestamp >= now - 7
              /\ \A x \in log : x.timestamp = now - 7 => x \in req'.legs[2]
      ]_vars

\* a listing that holds an entry exactly 7 days old and leaves out an older
\* one
C22_Witness ==
    /\ req.op = "activity_recent"
    /\ resp = 200
    /\ Len(req.legs) = 2
    /\ \E x \in req.legs[2] : x.timestamp = now - 7
    /\ \E x \in log : x.timestamp < now - 7 /\ x \notin req.legs[2]
-----------------------------------------------------------------------------
(* Properties of the middleware (SpecLog) *)

\* C24: a login answered 2xx appends exactly one entry, of action LOGIN and
\* content SYSTEM, whose actor is the user who logged in.
C24_LoginLogged ==
    [][ (req'.op = "login" /\ resp' >= 200 /\ resp' <= 299) =>
           /\ Cardinality(NewEntries(log')) = 1
           /\ \A x \in NewEntries(log') :
                 /\ x.action_type = "LOGIN"
                 /\ x.content_type = "SYSTEM"
                 /\ x.user = req'.legs[2] ]_vars

\* C25: an update or a deletion of an employee answered 2xx produces no
\* entry of action VIEW.
C25_ViewOnlyForReads ==
    [][ ( /\ req'.op \in {"employee_update", "employee_delete"}
          /\ resp' >= 200
          /\ resp' <= 299 ) =>
           \A x \in NewEntries(log') : x.action_type # "VIEW" ]_vars

\* the last number of a path, NoId when it has none
LastNumber(path) == IF path.next # NoId THEN path.next ELSE path.id

\* C26: the content id of the entry a request produces is the last number
\* of the path of the request, and null (NoId) when the path has no number.
C26_TargetIsLastNumber ==
    [][ \A x \in NewEntries(log') :
           x.content_id = LastNumber(req'.legs[1]) ]_vars

\* a mission order was read and the entry carries its key
C26_Witness ==
    /\ req.op = "mission_retrieve"
    /\ resp = 200
    /\ \E x \in log :
          /\ x.id = nextId.act - 1
          /\ x.content_type = "MISSION"
          /\ x.content_id = 1
          /\ LastNumber(req.legs[1]) = 1

\* C27: when the entry cannot be saved, the request that caused it is
\* answered as its view answered it, with a 2xx status, not with an error.
C27_LogFailureHarmless ==
    [][ req'.given => (resp' >= 200 /\ resp' <= 299) ]_vars

-----------------------------------------------------------------------------
(* Properties of the read flag (SpecNotif) *)

\* the notifications among rows whose recipient is not u
OthersOf(rows, u) == {n \in rows : n.user # u}

\* C28: mark_as_read and mark_all_as_read issued by user U never change the
\* read flag of a notification whose recipient is not U: mark_as_read on
\* another user's notification is answered 404 and changes nothing, and
\* mark_all_as_read leaves every other user's unread notifications unread.
C28_OthersFlagsKept ==
    [][ /\ (req'.op = "mark_as_read" /\ MarkAsRead(req'.id, req'.legs[1])) =>
              /\ OthersOf(notifications', req'.id)
                    = OthersOf(notifications, req'.id)
              /\ req'.legs[1] \in
                    {n.id : n \in OthersOf(notifications, req'.id)}
                    => (resp' = 404 /\ notifications' = notifications)
        /\ (req'.op = "mark_all_as_read" /\ MarkAllAsRead(req'.id)) =>
              /\ OthersOf(notifications', req'.id)
                    = OthersOf(notifications, req'.id)
              /\ \A v \in UserIds \ {req'.id} :
                    UnreadOf(notifications', v) = UnreadOf(notifications, v) ]_vars

\* a user who has a notification of their own was answered 404 for marking
\* the unread notification of another user, which is still unread
C28_Witness ==
    /\ req.op = "mark_as_read"
    /\ resp = 404
    /\ \E n \in notifications : n.user = req.id
    /\ \E n \in notifications :
          n.id = req.legs[1] /\ n.user # req.id /\ ~n.is_read

-----------------------------------------------------------------------------
(* Properties of concurrent mark_all_as_read (SpecNotifConc) *)

\* C29: under any interleaving of mark_all_as_read by user U with requests
\* that create a notification for U or mark one of U's notifications read,
\* the count the call reports equals the number of notifications the call
\* flipped from unread to read.
C29_ReportedCountIsFlipped ==
    \A w \in Workers :
       (proc[w].pc = "done" /\ proc[w].op = "mark_all_as_read") =>
          proc[w].k = Cardinality(proc[w].seen)
====
